---- MODULE Spec2Model ----
(***************************************************************************)
(* A model of the OpenCEM simulator core: Clock, the analytic components   *)
(* (BatteryLinear, GridPriced, InverterPVFirst), the replay adapters that   *)
(* feed the Simulator (PowerSourceDataset, LoadDataset), the per-step      *)
(* querying replay of offline.py, ContextDataset, the block-resampling     *)
(* wrappers and the Simulator orchestration loop.                          *)
(*                                                                         *)
(* Python floats are modelled as exact rationals <<n, d>> (d > 0, lowest   *)
(* terms).  Floating-point rounding is modelled where it decides the       *)
(* result, in Clock.align and in interpolate_value_float: there a float    *)
(* keeps MantissaBits significant bits (round to nearest, ties to even),   *)
(* a narrow stand-in for the 53 bits of a double.  An Optional value is a  *)
(* sequence: <<>> is None and <<x>> is the value x.                        *)
(***************************************************************************)
EXTENDS Integers, Sequences, FiniteSets, TLC

VARIABLES battery, power_source, load, grid, inverter, sim, clocks, dataset,
          last_call, hist

vars == <<battery, power_source, load, grid, inverter, sim, clocks, dataset,
          last_call, hist>>

(***************************************************************************)
(* Exact rational arithmetic standing for Python float arithmetic.         *)
(***************************************************************************)
Abs(x) == IF x < 0 THEN -x ELSE x

RECURSIVE GCD(_, _)
GCD(a, b) == IF b = 0 THEN a ELSE GCD(b, a % b)

Q(n, d) ==
    LET g == GCD(Abs(n), Abs(d))
        s == IF d < 0 THEN -1 ELSE 1
    IN  <<(s * n) \div g, (s * d) \div g>>

QInt(n) == <<n, 1>>

QAdd(x, y) ==
    LET g == GCD(x[2], y[2])
    IN  Q(x[1] * (y[2] \div g) + y[1] * (x[2] \div g), (x[2] \div g) * y[2])

QNeg(x) == <<-x[1], x[2]>>

QSub(x, y) == QAdd(x, QNeg(y))

QMul(x, y) ==
    LET a == Q(x[1], y[2])
        b == Q(y[1], x[2])
    IN  <<a[1] * b[1], a[2] * b[2]>>

QDiv(x, y) == QMul(x, Q(y[2], y[1]))

QLe(x, y) == x[1] * y[2] <= y[1] * x[2]

QLt(x, y) == x[1] * y[2] < y[1] * x[2]

QMax(x, y) == IF QLt(x, y) THEN y ELSE x

QMin(x, y) == IF QLt(y, x) THEN y ELSE x

Zero == QInt(0)

One == QInt(1)

None == <<>>

Some(x) == <<x>>

(***************************************************************************)
(* Floating point: the floats are the rationals m * 2^e with               *)
(* |m| < 2^MantissaBits; fl rounds a rational to the nearest float, ties   *)
(* to the even mantissa.  Exponents are unbounded.                         *)
(***************************************************************************)
MantissaBits == 4

RECURSIVE Pow2(_)
Pow2(n) == IF n = 0 THEN 1 ELSE 2 * Pow2(n - 1)

\* Python's round on a float: the nearest integer, ties to the even one.
py_round(x) ==
    LET f == x[1] \div x[2]
        r == x[1] - f * x[2]
    IN  IF 2 * r < x[2] THEN f
        ELSE IF 2 * r > x[2] THEN f + 1
        ELSE IF f % 2 = 0 THEN f ELSE f + 1

\* a / 2^e
scaled(a, e) == IF e >= 0 THEN Q(a[1], a[2] * Pow2(e)) ELSE Q(a[1] * Pow2(-e), a[2])

\* The exponent e that puts a > 0 in 2^(MantissaBits-1) <= a / 2^e < 2^MantissaBits.
RECURSIVE exponent(_, _)
exponent(a, e) ==
    IF QLe(QInt(Pow2(MantissaBits)), scaled(a, e)) THEN exponent(a, e + 1)
    ELSE IF QLt(scaled(a, e), QInt(Pow2(MantissaBits - 1))) THEN exponent(a, e - 1)
    ELSE e

fl(x) ==
    IF x[1] = 0 THEN x
    ELSE LET a == <<Abs(x[1]), x[2]>>
             e == exponent(a, 0)
             m == py_round(scaled(a, e)) * (IF x[1] < 0 THEN -1 ELSE 1)
         IN  scaled(QInt(m), -e)

FAdd(x, y) == fl(QAdd(x, y))

FSub(x, y) == fl(QSub(x, y))

FMul(x, y) == fl(QMul(x, y))

FDiv(x, y) == fl(QDiv(x, y))

(***************************************************************************)
(* clock.py: Clock, an immutable value [ticks, RES].                       *)
(***************************************************************************)
Clock(ticks, res) == [ticks |-> ticks, RES |-> res]

to_seconds(c) == Q(c.ticks, c.RES)

AssertionError == "AssertionError"

difference_hours(from_clock, to_clock) ==
    IF from_clock.RES = to_clock.RES
    THEN QDiv(Q(to_clock.ticks - from_clock.ticks, to_clock.RES), QInt(60 * 60))
    ELSE AssertionError

\* Mutant: the clock returned has resolution 1 whatever the receiver's.
advance_losing_res(c, step_ticks) == Clock(c.ticks + step_ticks, 1)

advance(c, step_ticks) == Clock(c.ticks + step_ticks, c.RES)

advance_seconds(c, seconds) == advance(c, py_round(QMul(seconds, QInt(c.RES))))

ZeroDivisionError == "ZeroDivisionError"

\* ticks / ticks_per_step is a float division of two ints, correctly rounded.
align(c, ticks_per_step) ==
    IF ticks_per_step = 0 THEN ZeroDivisionError
    ELSE Clock(py_round(fl(Q(c.ticks, ticks_per_step))) * ticks_per_step, c.RES)

\* Clock.__gt__
Clock_gt(self, other) == self.ticks > other.ticks

(***************************************************************************)
(* linear.py: BatteryLinear.                                               *)
(***************************************************************************)
BatteryStepInput(mode, current_a) == [mode |-> mode, current_a |-> current_a]

BatteryStepResult(voltage_v, current_a, soc, discharge_capacity_c, discharge_energy_j) ==
    [voltage_v |-> voltage_v, current_a |-> current_a, soc |-> soc,
     discharge_capacity_c |-> discharge_capacity_c,
     discharge_energy_j |-> discharge_energy_j]

BatteryLinear(clock, initial_soc, capacity_j, nominal_voltage_v, charge_efficiency, discharge_efficiency) ==
    [clock |-> clock,
     energy_j |-> QMul(initial_soc, capacity_j),
     nominal_voltage_v |-> nominal_voltage_v,
     capacity_j |-> capacity_j,
     charge_efficiency |-> charge_efficiency,
     discharge_efficiency |-> discharge_efficiency]

soc(self) == QDiv(self.energy_j, self.capacity_j)

\* The requested energy of a step: V * I * hours * 3600.
requested_energy_j(self, inp, hours_passed) ==
    QMul(QMul(QMul(self.nominal_voltage_v, inp.current_a), hours_passed), QInt(3600))

\* Mutant: the over-draw clamp of the DISCHARGE branch is missing.
discharge_energy_unclamped(self, inp, hours_passed) ==
    QDiv(requested_energy_j(self, inp, hours_passed), self.discharge_efficiency)

\* DISCHARGE branch: the energy removed, clamped to the stored energy.
discharge_energy_of_discharge(self, inp, hours_passed) ==
    LET discharge_energy_j ==
            QDiv(requested_energy_j(self, inp, hours_passed), self.discharge_efficiency)
    IN  IF QLe(discharge_energy_j, self.energy_j)
        THEN discharge_energy_j
        ELSE self.energy_j

\* Mutant: the CHARGE / IDLE branch always takes the clamped value.
discharge_energy_of_charge_always_clamped(self, inp, hours_passed) ==
    QSub(self.capacity_j, self.energy_j)

\* CHARGE / IDLE branch: the (negative) energy removed; when the charge would
\* pass the capacity the code takes capacity_j - energy_j.
discharge_energy_of_charge(self, inp, hours_passed) ==
    LET discharge_energy_j ==
            QMul(QMul(requested_energy_j(self, inp, hours_passed), self.charge_efficiency),
                 QInt(-1))
    IN  IF QLe(QSub(self.energy_j, discharge_energy_j), self.capacity_j)
        THEN discharge_energy_j
        ELSE QSub(self.capacity_j, self.energy_j)

\* BatteryLinear.step: the battery after the call and the result returned.
BatteryLinear_step(self, step_ticks, battery_input) ==
    LET next_clock == advance(self.clock, step_ticks)
        hours_passed == difference_hours(self.clock, next_clock)
    IN  IF battery_input = None
        THEN [self |-> [self EXCEPT !.clock = next_clock],
              result |-> BatteryStepResult(self.nominal_voltage_v, Zero, soc(self),
                                           Zero, Zero)]
        ELSE LET inp == battery_input[1]
                 discharge_energy_j ==
                     IF inp.mode = "DISCHARGE"
                     THEN discharge_energy_of_discharge(self, inp, hours_passed)
                     ELSE discharge_energy_of_charge(self, inp, hours_passed)
                 after == [self EXCEPT !.clock = next_clock,
                                       !.energy_j = QSub(self.energy_j, discharge_energy_j)]
             IN  [self |-> after,
                  result |-> BatteryStepResult(self.nominal_voltage_v, inp.current_a,
                                               soc(after),
                                               QDiv(discharge_energy_j, self.nominal_voltage_v),
                                               discharge_energy_j)]

(***************************************************************************)
(* linear.py: GridPriced.  price_schedule is a sequence of <<time in       *)
(* seconds, price per kWh>>; Infinity is float('infinity').                *)
(***************************************************************************)
Infinity == <<1, 0>>

GridStepInput(power_demand_apparent_va, power_demand_active_w) ==
    [power_demand_apparent_va |-> power_demand_apparent_va,
     power_demand_active_w |-> power_demand_active_w]

GridPriced(clock, price_schedule, max_power_apparent_va, max_power_active_w) ==
    [clock |-> clock,
     price_schedule |-> price_schedule,
     max_power_apparent_va |-> max_power_apparent_va,
     max_power_active_w |-> max_power_active_w]

\* next((i, f) for i, f in reversed(schedule) if i <= now, (0., 0.)), scanning
\* the entries k, k-1, ..., 1.
RECURSIVE first_from_end(_, _, _)
first_from_end(schedule, k, now) ==
    IF k = 0 THEN <<Zero, Zero>>
    ELSE IF QLe(schedule[k][1], now) THEN schedule[k]
    ELSE first_from_end(schedule, k - 1, now)

\* Mutant: the price is looked up at the clock after it was advanced.
price_of_step_after_advance(self, next_clock) ==
    first_from_end(self.price_schedule, Len(self.price_schedule), to_seconds(next_clock))[2]

\* The price of a step: looked up at self.clock, which is not yet advanced.
price_of_step(self, next_clock) ==
    first_from_end(self.price_schedule, Len(self.price_schedule), to_seconds(self.clock))[2]

\* Mutant: the violation flag looks at the active power only.
violation_active_only(self, inp) ==
    QLt(self.max_power_active_w, inp.power_demand_active_w)

\* The violation flag of a step with an input.
violation_of(self, inp) ==
    \/ QLt(self.max_power_active_w, inp.power_demand_active_w)
    \/ QLt(self.max_power_apparent_va, inp.power_demand_apparent_va)

\* GridPriced.step: the grid after the call and the PricedGridStepResult.
GridPriced_step(self, step_ticks, grid_input) ==
    LET next_clock == advance(self.clock, step_ticks)
        price == price_of_step(self, next_clock)
        hours == difference_hours(self.clock, next_clock)
    IN  [self |-> [self EXCEPT !.clock = next_clock],
         result |->
            [power_delivered_apparent_va |->
                 IF grid_input # None THEN grid_input[1].power_demand_apparent_va ELSE Zero,
             power_delivered_active_w |->
                 IF grid_input # None THEN grid_input[1].power_demand_active_w ELSE Zero,
             cost |->
                 IF grid_input # None
                 THEN QMul(QDiv(QMul(grid_input[1].power_demand_active_w, hours), QInt(1000)),
                           price)
                 ELSE Zero,
             violation |->
                 IF grid_input # None THEN violation_of(self, grid_input[1]) ELSE FALSE]]

(***************************************************************************)
(* linear.py: InverterPVFirst.                                             *)
(***************************************************************************)
InverterStepInput(last_battery_result, last_power_source_step, last_load_step) ==
    [last_battery_result |-> last_battery_result,
     last_power_source_step |-> last_power_source_step,
     last_load_step |-> last_load_step]

InverterStepResult(next_battery_input, next_grid_input, generator_power_drawn_w) ==
    [next_battery_input |-> next_battery_input,
     next_grid_input |-> next_grid_input,
     generator_power_drawn_w |-> generator_power_drawn_w]

InverterPVFirst(clock, pv_to_ac_efficiency, battery_to_ac_efficiency, pv_to_battery_efficiency, min_soc, max_soc, own_load_w) ==
    [clock |-> clock,
     pv_to_ac_efficiency |-> pv_to_ac_efficiency,
     battery_to_ac_efficiency |-> battery_to_ac_efficiency,
     pv_to_battery_efficiency |-> pv_to_battery_efficiency,
     min_soc |-> min_soc,
     max_soc |-> max_soc,
     own_load_w |-> own_load_w]

\* Mutant: PV must strictly exceed the load to count as covering it.
pv_strictly_exceeds_load(self, pv_w, load_w) ==
    QLt(load_w, QMul(pv_w, self.pv_to_ac_efficiency))

\* pv_w * pv_to_ac_efficiency >= load_w
pv_covers_load(self, pv_w, load_w) ==
    QLe(load_w, QMul(pv_w, self.pv_to_ac_efficiency))

\* soc >= max_soc
battery_full(self, soc_in) == QLe(self.max_soc, soc_in)

\* Mutant: a battery exactly at min_soc is still discharged.
battery_at_or_above_min(self, soc_in) == QLe(self.min_soc, soc_in)

\* soc > min_soc
battery_above_min(self, soc_in) == QLt(self.min_soc, soc_in)

\* The decision of InverterPVFirst.step: the InverterStepResult for an input.
InverterPVFirst_decide(self, inverter_input) ==
    LET pv_w == inverter_input.last_power_source_step.power_w
        load_w == QAdd(inverter_input.last_load_step.power_active_w, self.own_load_w)
        soc_in == inverter_input.last_battery_result.soc
        bat_v == inverter_input.last_battery_result.voltage_v
    IN  IF pv_covers_load(self, pv_w, load_w)
        THEN LET pv_remaining_w == QSub(pv_w, QDiv(load_w, self.pv_to_ac_efficiency))
                 generator_power_drawn_w == QDiv(load_w, self.pv_to_ac_efficiency)
                 next_grid_input == GridStepInput(Zero, Zero)
             IN  IF battery_full(self, soc_in)
                 THEN InverterStepResult(BatteryStepInput("IDLE", Zero), next_grid_input,
                                         generator_power_drawn_w)
                 ELSE LET battery_curr_a ==
                              QDiv(QMul(pv_remaining_w, self.pv_to_battery_efficiency), bat_v)
                      IN  InverterStepResult(BatteryStepInput("CHARGE", battery_curr_a),
                                             next_grid_input, pv_w)
        ELSE LET load_remaining_w == QSub(load_w, QMul(pv_w, self.pv_to_ac_efficiency))
             IN  IF battery_above_min(self, soc_in)
                 THEN LET needs_a ==
                              QDiv(QDiv(load_remaining_w, self.battery_to_ac_efficiency), bat_v)
                      IN  InverterStepResult(BatteryStepInput("DISCHARGE", needs_a),
                                             GridStepInput(Zero, Zero), pv_w)
                 ELSE InverterStepResult(BatteryStepInput("IDLE", Zero),
                                         GridStepInput(load_remaining_w, load_remaining_w),
                                         pv_w)

\* InverterPVFirst.step's decision in floating-point arithmetic: each
\* operation of lines 93-130 rounds its result.
InverterPVFirst_decide_float(self, inverter_input) ==
    LET pv_w == inverter_input.last_power_source_step.power_w
        load_w == FAdd(inverter_input.last_load_step.power_active_w, self.own_load_w)
        soc_in == inverter_input.last_battery_result.soc
        bat_v == inverter_input.last_battery_result.voltage_v
    IN  IF QLe(load_w, FMul(pv_w, self.pv_to_ac_efficiency))
        THEN LET pv_remaining_w == FSub(pv_w, FDiv(load_w, self.pv_to_ac_efficiency))
                 generator_power_drawn_w == FDiv(load_w, self.pv_to_ac_efficiency)
                 next_grid_input == GridStepInput(Zero, Zero)
             IN  IF QLe(self.max_soc, soc_in)
                 THEN InverterStepResult(BatteryStepInput("IDLE", Zero), next_grid_input,
                                         generator_power_drawn_w)
                 ELSE LET battery_curr_a ==
                              FDiv(FMul(pv_remaining_w, self.pv_to_battery_efficiency), bat_v)
                      IN  InverterStepResult(BatteryStepInput("CHARGE", battery_curr_a),
                                             next_grid_input, pv_w)
        ELSE LET load_remaining_w == FSub(load_w, FMul(pv_w, self.pv_to_ac_efficiency))
             IN  IF QLt(self.min_soc, soc_in)
                 THEN LET needs_a ==
                              FDiv(FDiv(load_remaining_w, self.battery_to_ac_efficiency), bat_v)
                      IN  InverterStepResult(BatteryStepInput("DISCHARGE", needs_a),
                                             GridStepInput(Zero, Zero), pv_w)
                 ELSE InverterStepResult(BatteryStepInput("IDLE", Zero),
                                         GridStepInput(load_remaining_w, load_remaining_w),
                                         pv_w)

\* InverterPVFirst.step with the decision in floating-point arithmetic.
InverterPVFirst_step_float(self, step_ticks, inverter_input) ==
    [self |-> [self EXCEPT !.clock = advance(self.clock, step_ticks)],
     result |-> InverterPVFirst_decide_float(self, inverter_input)]

\* Mutant: the step leaves the inverter's clock.
InverterPVFirst_step_keeping_clock(self, step_ticks, inverter_input) ==
    [self |-> self, result |-> InverterPVFirst_decide(self, inverter_input)]

\* InverterPVFirst.step: the inverter after the call and the result returned.
InverterPVFirst_step(self, step_ticks, inverter_input) ==
    [self |-> [self EXCEPT !.clock = advance(self.clock, step_ticks)],
     result |-> InverterPVFirst_decide(self, inverter_input)]

(***************************************************************************)
(* dataset.py: the replay engine.  A table is a sequence of <<read_ts,      *)
(* value>> rows in ascending time order; a step that raises is a record    *)
(* with ok = FALSE and the exception's name.                                *)
(***************************************************************************)
Ok(value) == [ok |-> TRUE, value |-> value]

Raise(error) == [ok |-> FALSE, error |-> error]

\* The rows of a column from the latest row at or before ts on; no row at all
\* when no row is at or before ts (the subquery is NULL).
load_inverter_array(column, ts) ==
    LET anchors == {k \in 1..Len(column) : QLe(column[k][1], ts)}
    IN  IF anchors = {}
        THEN <<>>
        ELSE LET first == CHOOSE k \in anchors : \A j \in anchors : j <= k
             IN  SubSeq(column, first, Len(column))

\* arr[i] with Python's 0-based index, a negative index counting from the end.
py_index(arr, i) == IF i < 0 THEN arr[Len(arr) + i + 1] ELSE arr[i + 1]

\* np.searchsorted(times, ts): the number of rows whose time is below ts.
searchsorted(arr, ts) == Cardinality({k \in 1..Len(arr) : QLt(arr[k][1], ts)})

interpolate_value(arr, ts) ==
    IF arr = <<>> THEN Raise("IndexError")
    ELSE IF QLt(py_index(arr, -1)[1], ts) THEN Raise("ValueError")
    ELSE LET idx == searchsorted(arr, ts)
             t0 == py_index(arr, idx - 1)[1]
             t1 == py_index(arr, idx)[1]
             v0 == py_index(arr, idx - 1)[2]
             v1 == py_index(arr, idx)[2]
         IN  IF t0 = ts THEN Ok(v0)
             ELSE IF t1 = t0 THEN Ok("nan")
             ELSE Ok(QAdd(v0, QMul(QDiv(QSub(ts, t0), QSub(t1, t0)), QSub(v1, v0))))

\* interpolate_value in floating-point arithmetic: each operation of lines
\* 61-62 rounds its result.
interpolate_value_float(arr, ts) ==
    IF arr = <<>> THEN Raise("IndexError")
    ELSE IF QLt(py_index(arr, -1)[1], ts) THEN Raise("ValueError")
    ELSE LET idx == searchsorted(arr, ts)
             t0 == py_index(arr, idx - 1)[1]
             t1 == py_index(arr, idx)[1]
             v0 == py_index(arr, idx - 1)[2]
             v1 == py_index(arr, idx)[2]
         IN  IF t0 = ts THEN Ok(v0)
             ELSE IF t1 = t0 THEN Ok("nan")
             ELSE Ok(FAdd(v0, FMul(FDiv(FSub(ts, t0), FSub(t1, t0)), FSub(v1, v0))))

PowerSourceStepResult(voltage_v, current_a, power_w) ==
    [voltage_v |-> voltage_v, current_a |-> current_a, power_w |-> power_w]

PowerSourceDataset(clock, database) ==
    [pv1volt |-> load_inverter_array(database.pv1volt, to_seconds(clock)),
     pv1curr |-> load_inverter_array(database.pv1curr, to_seconds(clock)),
     pv1power |-> load_inverter_array(database.pv1power, to_seconds(clock)),
     clock |-> clock]

\* PowerSourceDataset.step: the first interpolation that raises ends the call
\* with the clock as it was.
PowerSourceDataset_step(self, step_ticks) ==
    LET next_clock == advance(self.clock, step_ticks)
        pv1volt == interpolate_value(self.pv1volt, to_seconds(self.clock))
        pv1curr == interpolate_value(self.pv1curr, to_seconds(self.clock))
        pv1power == interpolate_value(self.pv1power, to_seconds(self.clock))
    IN  IF ~pv1volt.ok THEN [ok |-> FALSE, error |-> pv1volt.error, self |-> self]
        ELSE IF ~pv1curr.ok THEN [ok |-> FALSE, error |-> pv1curr.error, self |-> self]
        ELSE IF ~pv1power.ok THEN [ok |-> FALSE, error |-> pv1power.error, self |-> self]
        ELSE [ok |-> TRUE,
              self |-> [self EXCEPT !.clock = next_clock],
              result |-> PowerSourceStepResult(pv1volt.value, pv1curr.value,
                                               pv1power.value)]

LoadStepResult(current_a, voltage_v, power_apparent_va, power_active_w) ==
    [current_a |-> current_a, voltage_v |-> voltage_v,
     power_apparent_va |-> power_apparent_va, power_active_w |-> power_active_w]

LoadDataset(clock, database) ==
    [clock |-> clock,
     outcurra |-> load_inverter_array(database.outcurra, to_seconds(clock)),
     outvolta |-> load_inverter_array(database.outvolta, to_seconds(clock)),
     outva_a |-> load_inverter_array(database.outva_a, to_seconds(clock)),
     outw_a |-> load_inverter_array(database.outw_a, to_seconds(clock))]

\* LoadDataset.step.
LoadDataset_step(self, step_ticks) ==
    LET next_clock == advance(self.clock, step_ticks)
        outcurra == interpolate_value(self.outcurra, to_seconds(self.clock))
        outvolta == interpolate_value(self.outvolta, to_seconds(self.clock))
        outva_a == interpolate_value(self.outva_a, to_seconds(self.clock))
        outw_a == interpolate_value(self.outw_a, to_seconds(self.clock))
    IN  IF ~outcurra.ok THEN [ok |-> FALSE, error |-> outcurra.error, self |-> self]
        ELSE IF ~outvolta.ok THEN [ok |-> FALSE, error |-> outvolta.error, self |-> self]
        ELSE IF ~outva_a.ok THEN [ok |-> FALSE, error |-> outva_a.error, self |-> self]
        ELSE IF ~outw_a.ok THEN [ok |-> FALSE, error |-> outw_a.error, self |-> self]
        ELSE [ok |-> TRUE,
              self |-> [self EXCEPT !.clock = next_clock],
              result |-> LoadStepResult(outcurra.value, outvolta.value, outva_a.value,
                                        outw_a.value)]

\* Python's "x or y" for a number x: y when x is zero.
py_or(x, y) == IF x = Zero THEN y ELSE x

\* The interpolations a step makes, in the order of names, at the component's
\* clock: the values by name, or the error of the first one that raises.
read_channels(self, names) ==
    LET read == [k \in 1..Len(names) |->
                    interpolate_value(self[names[k]], to_seconds(self.clock))]
        failed == {k \in 1..Len(names) : ~read[k].ok}
    IN  IF failed # {}
        THEN Raise(read[CHOOSE k \in failed : \A j \in failed : k <= j].error)
        ELSE Ok([c \in {names[k] : k \in 1..Len(names)} |->
                    read[CHOOSE k \in 1..Len(names) : names[k] = c].value])

BatteryDataset(clock, database) ==
    [clock |-> clock,
     battvolt |-> load_inverter_array(database.battvolt, to_seconds(clock)),
     battcurr |-> load_inverter_array(database.battcurr, to_seconds(clock)),
     battsoc |-> load_inverter_array(database.battsoc, to_seconds(clock)),
     nominal_voltage |-> QInt(55)]

\* The BatteryStepResult of BatteryDataset.step from the values m it read.
BatteryDataset_result(self, m, hours_passed) ==
    LET discharge_energy_j ==
            QMul(QMul(QMul(m.battvolt, m.battcurr), hours_passed), QInt(3600))
        discharge_capacity_c == QDiv(discharge_energy_j, self.nominal_voltage)
    IN  BatteryStepResult(py_or(m.battvolt, self.nominal_voltage),
                          py_or(m.battcurr, Zero),
                          py_or(QDiv(m.battsoc, QInt(100)), Zero),
                          py_or(discharge_capacity_c, Zero),
                          py_or(discharge_energy_j, Zero))

\* Mutant: the step assigns the advanced clock before it reads.
BatteryDataset_step_advancing_first(self, step_ticks, battery_input) ==
    LET next_clock == advance(self.clock, step_ticks)
        hours_passed == difference_hours(self.clock, next_clock)
        m == read_channels([self EXCEPT !.clock = next_clock],
                           <<"battvolt", "battcurr", "battsoc">>)
    IN  IF ~m.ok THEN [ok |-> FALSE, error |-> m.error, self |-> self]
        ELSE [ok |-> TRUE,
              self |-> [self EXCEPT !.clock = next_clock],
              result |-> BatteryDataset_result(self, m.value, hours_passed)]

\* BatteryDataset.step: battery_input is not read.
BatteryDataset_step(self, step_ticks, battery_input) ==
    LET next_clock == advance(self.clock, step_ticks)
        hours_passed == difference_hours(self.clock, next_clock)
        m == read_channels(self, <<"battvolt", "battcurr", "battsoc">>)
    IN  IF ~m.ok THEN [ok |-> FALSE, error |-> m.error, self |-> self]
        ELSE [ok |-> TRUE,
              self |-> [self EXCEPT !.clock = next_clock],
              result |-> BatteryDataset_result(self, m.value, hours_passed)]

GridStepResult(power_delivered_apparent_va, power_delivered_active_w) ==
    [power_delivered_apparent_va |-> power_delivered_apparent_va,
     power_delivered_active_w |-> power_delivered_active_w]

GridDataset(clock, database) ==
    [clock |-> clock,
     linepowerva_a |-> load_inverter_array(database.linepowerva_a, to_seconds(clock)),
     linepowerw_a |-> load_inverter_array(database.linepowerw_a, to_seconds(clock))]

\* GridDataset.step: grid_input is not read.
GridDataset_step(self, step_ticks, grid_input) ==
    LET next_clock == advance(self.clock, step_ticks)
        m == read_channels(self, <<"linepowerva_a", "linepowerw_a">>)
    IN  IF ~m.ok THEN [ok |-> FALSE, error |-> m.error, self |-> self]
        ELSE [ok |-> TRUE,
              self |-> [self EXCEPT !.clock = next_clock],
              result |-> GridStepResult(m.value.linepowerva_a, m.value.linepowerw_a)]

InverterDataset(clock, database) ==
    [clock |-> clock,
     battcurr |-> load_inverter_array(database.battcurr, to_seconds(clock)),
     linepowerw_a |-> load_inverter_array(database.linepowerw_a, to_seconds(clock)),
     linepowerva_a |-> load_inverter_array(database.linepowerva_a, to_seconds(clock)),
     pv1power |-> load_inverter_array(database.pv1power, to_seconds(clock))]

\* The InverterStepResult both InverterDataset revisions build from the
\* values m of the channels.
InverterDataset_result(m) ==
    InverterStepResult(
        BatteryStepInput(IF QLt(m.battcurr, Zero) THEN "CHARGE"
                         ELSE IF QLt(Zero, m.battcurr) THEN "DISCHARGE"
                         ELSE "IDLE",
                         IF QLt(m.battcurr, Zero) THEN QNeg(m.battcurr) ELSE m.battcurr),
        GridStepInput(m.linepowerva_a, m.linepowerw_a),
        m.pv1power)

\* InverterDataset.step: inverter_input is not read.
InverterDataset_step(self, step_ticks, inverter_input) ==
    LET next_clock == advance(self.clock, step_ticks)
        m == read_channels(self, <<"battcurr", "pv1power", "linepowerva_a",
                                   "linepowerw_a">>)
    IN  IF ~m.ok THEN [ok |-> FALSE, error |-> m.error, self |-> self]
        ELSE [ok |-> TRUE,
              self |-> [self EXCEPT !.clock = next_clock],
              result |-> InverterDataset_result(m.value)]

(***************************************************************************)
(* dataset.py: ContextDataset.  The table context is a sequence of rows    *)
(* [recorded, start, end] in seconds.                                      *)
(***************************************************************************)
\* load_context: the rows that end at or after now.  ContextRecord has five
\* fields (recorded_at, start, end, source, payload) and line 18 calls it with
\* four arguments, so building the record of the first selected row raises.
load_context(con, now) ==
    LET rows == SelectSeq(con, LAMBDA r : QLe(to_seconds(now), r.end))
    IN  IF rows = <<>> THEN Ok(<<>>) ELSE Raise("TypeError")

\* ContextDataset.__init__: the component, or the exception of load_context.
ContextDataset(clock, horizon_ticks, database) ==
    LET all_context == load_context(database, clock)
    IN  IF ~all_context.ok THEN all_context
        ELSE [ok |-> TRUE, clock |-> clock, all_context |-> all_context.value,
              horizon |-> horizon_ticks]

ContextDataset_step(self, step_ticks) ==
    LET now == self.clock
    IN  [ok |-> TRUE,
         self |-> [self EXCEPT !.clock = advance(self.clock, step_ticks)],
         result |-> SelectSeq(self.all_context,
                              LAMBDA c : /\ Clock_gt(c.end, now)
                                         /\ Clock_gt(now, c.recorded_at)
                                         /\ Clock_gt(advance(now, self.horizon), c.start))]

(***************************************************************************)
(* dataset.py: BlockSampledDataset and BlockSampledContext, one wrapper    *)
(* around an inner replay component of class cls ("PowerSourceDataset",    *)
(* or "ContextDataset" for BlockSampledContext).                           *)
(*                                                                         *)
(* The generator of np.random.default_rng is a state machine: its state is *)
(* fixed by the seed (numpy takes entropy from the operating system only   *)
(* for a seed of None), and each draw is a function of the state.          *)
(***************************************************************************)
\* Mutant: the generator starts from fresh entropy whatever the seed.
default_rng_unseeded(seed, entropy) == [state |-> entropy]

default_rng(seed, entropy) == [state |-> IF seed = None THEN entropy ELSE seed[1]]

\* rng.integers(low, high): a value in low..high-1 and the generator after the
\* draw; ValueError when the range is empty.
rng_integers(rng, low, high) ==
    IF low >= high THEN Raise("ValueError")
    ELSE [ok |-> TRUE,
          value |-> low + (((rng.state * 5 + 3) % 16) % (high - low)),
          rng |-> [state |-> (rng.state * 5 + 3) % 16]]

\* math.floor
floor(x) == x[1] \div x[2]

\* self.cls(self.clock, self.inverter_id, self.database), or
\* ContextDataset(self.clock, self.horizon_ticks, self.database).
cls_new(self, clock) ==
    IF self.cls = "PowerSourceDataset"
    THEN [ok |-> TRUE, ds |-> PowerSourceDataset(clock, self.database)]
    ELSE [ok |-> ContextDataset(clock, self.horizon_ticks, self.database).ok,
          ds |-> ContextDataset(clock, self.horizon_ticks, self.database)]

\* self.ds.step(step_ticks)
cls_step(cls, ds, step_ticks) ==
    IF cls = "PowerSourceDataset" THEN PowerSourceDataset_step(ds, step_ticks)
    ELSE ContextDataset_step(ds, step_ticks)

\* The clock of the window with index block.
window_start(self, block) ==
    advance_seconds(self.start_clock, QMul(QMul(QInt(60 * 60), self.block_hours), QInt(block)))

\* Mutant: the window ends two block lengths after its start.
window_end_doubled(self, clock) ==
    advance_seconds(clock, QMul(QInt(2 * 60 * 60), self.block_hours))

window_end(self, clock) == advance_seconds(clock, QMul(QInt(60 * 60), self.block_hours))

\* sample_new_block: the wrapper after it and the window index drawn.  When the
\* inner constructor raises, clock and end are already those of the new window
\* and ds is the old one.
sample_new_block(self) ==
    LET draw == rng_integers(self.rng, 0, self.blocks)
    IN  IF ~draw.ok THEN [ok |-> FALSE, error |-> draw.error, self |-> self, drawn |-> <<>>]
        ELSE LET moved == [self EXCEPT !.rng = draw.rng,
                                       !.clock = window_start(self, draw.value),
                                       !.end = window_end(self, window_start(self, draw.value))]
                 inner == cls_new(self, moved.clock)
             IN  IF ~inner.ok
                 THEN [ok |-> FALSE, error |-> inner.ds.error, self |-> moved,
                       drawn |-> <<draw.value>>]
                 ELSE [ok |-> TRUE, self |-> [moved EXCEPT !.ds = inner.ds],
                       drawn |-> <<draw.value>>]

\* BlockSampledDataset.__init__ / BlockSampledContext.__init__: the result of
\* the first sample_new_block, or the exception raised before it.
BlockSampled(cls, start_clock, end_clock, horizon_ticks, database, block_hours, seed, entropy) ==
    IF difference_hours(start_clock, end_clock) = AssertionError
    THEN [ok |-> FALSE, error |-> AssertionError, drawn |-> <<>>]
    ELSE sample_new_block(
             [cls |-> cls, database |-> database, start_clock |-> start_clock,
              horizon_ticks |-> horizon_ticks,
              blocks |-> floor(QDiv(difference_hours(start_clock, end_clock), QInt(8))),
              block_hours |-> block_hours, rng |-> default_rng(seed, entropy),
              clock |-> None, end |-> None, ds |-> None])

\* Mutant: the window counts as passed as soon as the clock reaches its end.
window_reached(self) == ~Clock_gt(self.end, self.clock)

\* self.clock > self.end
window_passed(self) == Clock_gt(self.clock, self.end)

\* The wrapper's step from the wrapper w the resample decision left: the clock
\* advances, then the inner component is stepped.  at and served are the
\* wrapper's clock and the inner component when the inner step is made.
BlockSampled_serve(w, drawn, step_ticks) ==
    [ok |-> cls_step(w.cls, w.ds, step_ticks).ok,
     self |-> [w EXCEPT !.clock = advance(w.clock, step_ticks),
                        !.ds = cls_step(w.cls, w.ds, step_ticks).self],
     step |-> cls_step(w.cls, w.ds, step_ticks),
     drawn |-> drawn, at |-> w.clock, end |-> w.end, served |-> Some(w.ds)]

\* BlockSampledDataset.step / BlockSampledContext.step.
BlockSampled_step(self, step_ticks) ==
    IF ~window_passed(self) THEN BlockSampled_serve(self, <<>>, step_ticks)
    ELSE CHOOSE out \in
             {IF ~s.ok
              THEN [ok |-> FALSE, self |-> s.self, step |-> [ok |-> FALSE, error |-> s.error],
                    drawn |-> s.drawn, at |-> s.self.clock, end |-> s.self.end,
                    served |-> None]
              ELSE BlockSampled_serve(s.self, s.drawn, step_ticks) :
                 s \in {sample_new_block(self)}} : TRUE

(***************************************************************************)
(* offline.py: the replay variant that queries the store on every step.    *)
(* The table analog_measurements is a sequence of rows of one inverter: a   *)
(* record with the fields inverter and read_ts and one field per column.   *)
(***************************************************************************)
Tagged(kind, row) ==
    [c \in DOMAIN row \cup {"kind"} |-> IF c = "kind" THEN kind ELSE row[c]]

\* The rows the query returns: the rows at ts or, when there is none, the
\* latest row before ts and the earliest row after it.
fetch_around_unix_ts(table, ts_seconds) ==
    LET exact == SelectSeq(table, LAMBDA m : m.read_ts = ts_seconds)
        before == {k \in 1..Len(table) : QLt(table[k].read_ts, ts_seconds)}
        after == {k \in 1..Len(table) : QLt(ts_seconds, table[k].read_ts)}
        prev == IF before = {} THEN <<>>
                ELSE <<Tagged("prev",
                              table[CHOOSE k \in before :
                                       \A j \in before :
                                          QLe(table[j].read_ts, table[k].read_ts)])>>
        next == IF after = {} THEN <<>>
                ELSE <<Tagged("next",
                              table[CHOOSE k \in after :
                                       \A j \in after :
                                          QLe(table[k].read_ts, table[j].read_ts)])>>
    IN  IF exact # <<>>
        THEN [k \in 1..Len(exact) |-> Tagged("exact", exact[k])]
        ELSE prev \o next

\* isinstance(v, numbers.Number) and isinstance(v, (int, float)): a stored
\* value is a number <<n, d>>, NULL (None) or a text <<t>>.
is_number(v) == Len(v) = 2

\* Mutant: the value of the row before, whatever the weight.
interpolate_column_holding_prev(alpha, v0, v1) == v0

\* v0 + alpha * (v1 - v0)
interpolate_column(alpha, v0, v1) == QAdd(v0, QMul(alpha, QSub(v1, v0)))

interpolate_row(rows, ts) ==
    IF rows = <<>> THEN Raise("ValueError")
    ELSE LET exact == SelectSeq(rows, LAMBDA r : r.kind = "exact")
             prev == SelectSeq(rows, LAMBDA r : r.kind = "prev")
             next_ == SelectSeq(rows, LAMBDA r : r.kind = "next")
         IN  IF exact # <<>> THEN Ok(exact[1])
             ELSE IF prev # <<>> /\ next_ # <<>>
             THEN LET p == prev[Len(prev)]
                      n == next_[Len(next_)]
                      alpha == QDiv(QSub(ts, p.read_ts), QSub(n.read_ts, p.read_ts))
                  IN  IF n.read_ts = p.read_ts THEN Ok(p)
                      ELSE Ok([c \in DOMAIN p |->
                                  IF c = "kind" THEN "interp"
                                  ELSE IF c = "read_ts" THEN ts
                                  ELSE IF c = "inverter" THEN p.inverter
                                  ELSE IF is_number(p[c]) /\ is_number(n[c])
                                  THEN interpolate_column(alpha, p[c], n[c])
                                  ELSE p[c]])
             ELSE IF prev # <<>> THEN Ok(prev[Len(prev)])
             ELSE Ok(next_[Len(next_)])

\* offline.PowerSourceDataset.__init__
OfflinePowerSourceDataset(clock, database) == [db |-> database, clock |-> clock]

\* offline.PowerSourceDataset.step: a failed lookup ends the call with the
\* clock as it was.
OfflinePowerSourceDataset_step(self, step_ticks) ==
    LET m == interpolate_row(fetch_around_unix_ts(self.db, to_seconds(self.clock)),
                             to_seconds(self.clock))
    IN  IF ~m.ok THEN [ok |-> FALSE, error |-> m.error, self |-> self]
        ELSE [ok |-> TRUE,
              self |-> [self EXCEPT !.clock = advance(self.clock, step_ticks)],
              result |-> PowerSourceStepResult(m.value.pv1volt, m.value.pv1curr,
                                               m.value.pv1power)]

\* The row a step of an offline component looks up at its clock.
row_at_clock(self) ==
    interpolate_row(fetch_around_unix_ts(self.db, to_seconds(self.clock)),
                    to_seconds(self.clock))

\* offline.BatteryDataset.__init__
OfflineBatteryDataset(clock, database) ==
    [db |-> database, clock |-> clock, nominal_voltage |-> QInt(55)]

\* The BatteryStepResult of offline.BatteryDataset.step from the row m.
OfflineBatteryDataset_result(self, m, hours_passed) ==
    LET discharge_energy_j ==
            QMul(QMul(QMul(m.battvolt, m.battcurr), hours_passed), QInt(3600))
    IN  BatteryStepResult(m.battvolt, m.battcurr, m.battsoc,
                          QDiv(discharge_energy_j, self.nominal_voltage),
                          discharge_energy_j)

\* offline.BatteryDataset.step: battery_input is not read; the product of a
\* NULL battvolt or battcurr raises before the clock is assigned.
OfflineBatteryDataset_step(self, step_ticks, battery_input) ==
    LET next_clock == advance(self.clock, step_ticks)
        hours_passed == difference_hours(self.clock, next_clock)
        m == row_at_clock(self)
    IN  IF ~m.ok THEN [ok |-> FALSE, error |-> m.error, self |-> self]
        ELSE IF ~is_number(m.value.battvolt) \/ ~is_number(m.value.battcurr)
        THEN [ok |-> FALSE, error |-> "TypeError", self |-> self]
        ELSE [ok |-> TRUE,
              self |-> [self EXCEPT !.clock = next_clock],
              result |-> OfflineBatteryDataset_result(self, m.value, hours_passed)]

\* offline.LoadDataset.__init__
OfflineLoadDataset(clock, database) == [db |-> database, clock |-> clock]

\* offline.LoadDataset.step
OfflineLoadDataset_step(self, step_ticks) ==
    LET m == row_at_clock(self)
    IN  IF ~m.ok THEN [ok |-> FALSE, error |-> m.error, self |-> self]
        ELSE [ok |-> TRUE,
              self |-> [self EXCEPT !.clock = advance(self.clock, step_ticks)],
              result |-> LoadStepResult(m.value.outcurra, m.value.outvolta,
                                        m.value.outva_a, m.value.outw_a)]

\* offline.GridDataset.__init__
OfflineGridDataset(clock, database) == [db |-> database, clock |-> clock]

\* offline.GridDataset.step: grid_input is not read.
OfflineGridDataset_step(self, step_ticks, grid_input) ==
    LET m == row_at_clock(self)
    IN  IF ~m.ok THEN [ok |-> FALSE, error |-> m.error, self |-> self]
        ELSE [ok |-> TRUE,
              self |-> [self EXCEPT !.clock = advance(self.clock, step_ticks)],
              result |-> GridStepResult(m.value.linepowerva_a, m.value.linepowerw_a)]

\* offline.InverterDataset.__init__
OfflineInverterDataset(clock, database) == [db |-> database, clock |-> clock]

\* offline.InverterDataset.step: inverter_input is not read.  The clock is
\* assigned before the result is built, and the comparison of a NULL battcurr
\* with 0 raises then.
OfflineInverterDataset_step(self, step_ticks, inverter_input) ==
    LET m == row_at_clock(self)
    IN  IF ~m.ok THEN [ok |-> FALSE, error |-> m.error, self |-> self]
        ELSE IF ~is_number(m.value.battcurr)
        THEN [ok |-> FALSE, error |-> "TypeError",
              self |-> [self EXCEPT !.clock = advance(self.clock, step_ticks)]]
        ELSE [ok |-> TRUE,
              self |-> [self EXCEPT !.clock = advance(self.clock, step_ticks)],
              result |-> InverterDataset_result(m.value)]

(***************************************************************************)
(* simulator.py: StepAggregates, CumulativeAggregates and Simulator.       *)
(***************************************************************************)
CumulativeAggregates ==
    [total_generated_energy_wh |-> Zero,
     total_battery_charge_energy_wh |-> Zero,
     total_battery_discharge_energy_wh |-> Zero,
     total_load_energy_wh |-> Zero,
     total_generator_energy_unused_wh |-> Zero,
     max_grid_power_demand_active_w |-> Zero,
     max_grid_power_demand_apparent_va |-> Zero,
     max_battery_voltage_v |-> Zero,
     max_battery_current_a |-> Zero,
     max_load_voltage_v |-> Zero,
     max_load_current_a |-> Zero,
     max_generator_voltage_v |-> Zero,
     max_generator_current_a |-> Zero,
     max_battery_soc |-> Zero,
     min_battery_soc |-> Zero]

Simulator(clock) ==
    [next_battery_input |-> None,
     next_grid_input |-> None,
     clock |-> clock,
     last_cumulative |-> CumulativeAggregates]

\* Mutant: the grid is stepped before the load.
step_order_grid_before_load == <<"battery", "power_source", "grid", "load", "inverter">>

\* The order in which Simulator.step calls the components' step.
step_order == <<"battery", "power_source", "load", "grid", "inverter">>

\* The frame of a call after a component's step returned r (or raised).
frame_after(f, name, step_ticks, r, input) ==
    IF ~r.ok
    THEN [f EXCEPT !.raised = Some(r.error), !.log = Append(@, <<name, step_ticks>>)]
    ELSE [f EXCEPT ![name] = r.self,
                   !.results[name] = Some(r.result),
                   !.inputs[name] = Some(input),
                   !.log = Append(@, <<name, step_ticks>>)]

\* A step that cannot raise, as a step that returned.
Returned(r) == [ok |-> TRUE, self |-> r.self, result |-> r.result]

\* One component call of Simulator.step on the frame f of the call: the
\* components as they are, the results and inputs so far, the calls made (log)
\* and the exception raised, if any.  After an exception nothing more is called.
call_component(f, name, self, step_ticks) ==
    IF f.raised # None THEN f
    ELSE IF name = "battery" THEN
        frame_after(f, name, step_ticks,
                    Returned(BatteryLinear_step(f.battery, step_ticks,
                                                self.next_battery_input)),
                    self.next_battery_input)
    ELSE IF name = "power_source" THEN
        frame_after(f, name, step_ticks,
                    PowerSourceDataset_step(f.power_source, step_ticks), None)
    ELSE IF name = "load" THEN
        frame_after(f, name, step_ticks, LoadDataset_step(f.load, step_ticks), None)
    ELSE IF name = "grid" THEN
        frame_after(f, name, step_ticks,
                    Returned(GridPriced_step(f.grid, step_ticks, self.next_grid_input)),
                    self.next_grid_input)
    ELSE
        frame_after(f, name, step_ticks,
                    Returned(InverterPVFirst_step(
                                 f.inverter, step_ticks,
                                 InverterStepInput(f.results.battery[1],
                                                   f.results.power_source[1],
                                                   f.results.load[1]))),
                    InverterStepInput(f.results.battery[1], f.results.power_source[1],
                                      f.results.load[1]))

RECURSIVE call_components(_, _, _, _, _)
call_components(f, order, k, self, step_ticks) ==
    IF k > Len(order) THEN f
    ELSE CHOOSE done \in {call_components(g, order, k + 1, self, step_ticks) :
                             g \in {call_component(f, order[k], self, step_ticks)}} : TRUE

StepAggregates(power_source_step, battery_step, load_step, inverter_step, hours_passed) ==
    [generated_energy_wh |-> QMul(power_source_step.power_w, hours_passed),
     battery_charge_energy_wh |->
         QMax(Zero, QDiv(QNeg(battery_step.discharge_energy_j), QInt(3600))),
     battery_discharge_energy_wh |->
         QMax(Zero, QDiv(battery_step.discharge_energy_j, QInt(3600))),
     load_energy_wh |-> QMul(load_step.power_active_w, hours_passed),
     generator_energy_unused_wh |->
         QMul(QSub(power_source_step.power_w, inverter_step.generator_power_drawn_w),
              hours_passed)]

\* Mutant: the load total is fed from the generated energy.
totals_load_from_generated(last, step_aggregates) ==
    [total_generated_energy_wh |->
         QAdd(last.total_generated_energy_wh, step_aggregates.generated_energy_wh),
     total_battery_charge_energy_wh |->
         QAdd(last.total_battery_charge_energy_wh, step_aggregates.battery_charge_energy_wh),
     total_battery_discharge_energy_wh |->
         QAdd(last.total_battery_discharge_energy_wh,
              step_aggregates.battery_discharge_energy_wh),
     total_load_energy_wh |->
         QAdd(last.total_load_energy_wh, step_aggregates.generated_energy_wh),
     total_generator_energy_unused_wh |->
         QAdd(last.total_generator_energy_unused_wh,
              step_aggregates.generator_energy_unused_wh)]

\* The five running totals of the new CumulativeAggregates.
cumulative_totals(last, step_aggregates) ==
    [total_generated_energy_wh |->
         QAdd(last.total_generated_energy_wh, step_aggregates.generated_energy_wh),
     total_battery_charge_energy_wh |->
         QAdd(last.total_battery_charge_energy_wh, step_aggregates.battery_charge_energy_wh),
     total_battery_discharge_energy_wh |->
         QAdd(last.total_battery_discharge_energy_wh,
              step_aggregates.battery_discharge_energy_wh),
     total_load_energy_wh |->
         QAdd(last.total_load_energy_wh, step_aggregates.load_energy_wh),
     total_generator_energy_unused_wh |->
         QAdd(last.total_generator_energy_unused_wh,
              step_aggregates.generator_energy_unused_wh)]

\* The ten running extrema; next_grid_input is the one just stored.
cumulative_extrema(last, next_grid_input, battery_step, load_step, power_source_step) ==
    [max_grid_power_demand_active_w |->
         QMax(last.max_grid_power_demand_active_w, next_grid_input.power_demand_active_w),
     max_grid_power_demand_apparent_va |->
         QMax(last.max_grid_power_demand_apparent_va,
              next_grid_input.power_demand_apparent_va),
     max_battery_voltage_v |-> QMax(last.max_battery_voltage_v, battery_step.voltage_v),
     max_battery_current_a |-> QMax(last.max_battery_current_a, battery_step.current_a),
     max_load_voltage_v |-> QMax(last.max_load_voltage_v, load_step.voltage_v),
     max_load_current_a |-> QMax(last.max_load_current_a, load_step.current_a),
     max_generator_voltage_v |->
         QMax(last.max_generator_voltage_v, power_source_step.voltage_v),
     max_generator_current_a |->
         QMax(last.max_generator_current_a, power_source_step.current_a),
     max_battery_soc |-> QMax(last.max_battery_soc, battery_step.soc),
     min_battery_soc |-> QMin(last.min_battery_soc, battery_step.soc)]

\* Mutant: the setpoints are stored once and never replaced.
store_setpoints_once(self, inverter_step) ==
    IF self.next_battery_input # None
    THEN self
    ELSE [self EXCEPT !.next_battery_input = Some(inverter_step.next_battery_input),
                      !.next_grid_input = Some(inverter_step.next_grid_input)]

\* The pending setpoints taken from the inverter's result.
store_setpoints(self, inverter_step) ==
    [self EXCEPT !.next_battery_input = Some(inverter_step.next_battery_input),
                 !.next_grid_input = Some(inverter_step.next_grid_input)]

\* The frame at the start of a Simulator.step call.
new_frame(w) ==
    [battery |-> w.battery, power_source |-> w.power_source, load |-> w.load,
     grid |-> w.grid, inverter |-> w.inverter,
     results |-> [battery |-> None, power_source |-> None, load |-> None,
                  grid |-> None, inverter |-> None],
     inputs |-> [battery |-> None, power_source |-> None, load |-> None,
                 grid |-> None, inverter |-> None],
     log |-> <<>>, raised |-> None]

\* The Simulator's own part of step, after the five component calls returned.
Simulator_aggregate(self, f, step_ticks, hours_passed, step_aggregates) ==
    [frame |-> f,
     sim |-> [self EXCEPT
                !.last_cumulative =
                    cumulative_totals(self.last_cumulative, step_aggregates)
                    @@ cumulative_extrema(self.last_cumulative, self.next_grid_input[1],
                                          f.results.battery[1], f.results.load[1],
                                          f.results.power_source[1]),
                !.clock = advance(self.clock, step_ticks)],
     result |-> Some([battery |-> f.results.battery[1],
                      power_source |-> f.results.power_source[1],
                      load |-> f.results.load[1],
                      grid |-> f.results.grid[1],
                      inverter |-> f.results.inverter[1],
                      step_aggregates |-> step_aggregates,
                      cumulative_aggregates |->
                          cumulative_totals(self.last_cumulative, step_aggregates)
                          @@ cumulative_extrema(self.last_cumulative,
                                                self.next_grid_input[1],
                                                f.results.battery[1], f.results.load[1],
                                                f.results.power_source[1])])]

\* Simulator.step from the frame f the component calls left: when one raised,
\* the Simulator is as it was and nothing is returned.
Simulator_finish(w, f, step_ticks) ==
    IF f.raised # None
    THEN [frame |-> f, sim |-> w.sim, result |-> None]
    ELSE CHOOSE out \in
             {Simulator_aggregate(self, f, step_ticks, hours_passed, step_aggregates) :
                 self \in {store_setpoints(w.sim, f.results.inverter[1])},
                 hours_passed \in
                     {difference_hours(w.sim.clock, advance(w.sim.clock, step_ticks))},
                 step_aggregates \in
                     {StepAggregates(
                          f.results.power_source[1], f.results.battery[1],
                          f.results.load[1], f.results.inverter[1],
                          difference_hours(w.sim.clock, advance(w.sim.clock, step_ticks)))}} :
             TRUE

\* Simulator.step on the world w (the Simulator and its five components): the
\* frame of the call, the Simulator after it and, when no component raised,
\* the SimulatorStepResult.
Simulator_step(w, step_ticks) ==
    CHOOSE out \in
        {Simulator_finish(w, f, step_ticks) :
            f \in {call_components(new_frame(w), step_order, 1, w.sim, step_ticks)}} : TRUE

(***************************************************************************)
(* Bounds and the input sets the specifications draw from.                 *)
(***************************************************************************)
MaxCalls == 3

MaxSimCalls == 5

Resolutions == {1, 2}

StepTicks == {0, 1, 2}

Efficiencies == {One, Q(1, 2)}

InitialSocs == {Zero, Q(1, 4), One}

Currents == {Zero, One, QInt(3)}

BatteryModes == {"CHARGE", "DISCHARGE", "IDLE"}

BatteryInputs ==
    {None} \cup {Some(BatteryStepInput(m, i)) : m \in BatteryModes, i \in Currents}

(***************************************************************************)
(* SpecBattery: a BatteryLinear driven directly by its caller.             *)
(*   last_call: the last step call (its arguments, the battery before it,  *)
(*              its result); hist: the number of calls, the initial soc    *)
(*              and whether every call so far was a DISCHARGE.             *)
(***************************************************************************)
BatteryInit ==
    /\ \E res \in Resolutions, initial_soc \in InitialSocs, eff \in Efficiencies :
          /\ battery = BatteryLinear(Clock(0, res), initial_soc, QInt(8), QInt(2), eff, eff)
          /\ hist = [calls |-> 0, initial_soc |-> initial_soc, only_discharge |-> TRUE]
    /\ power_source = None
    /\ load = None
    /\ grid = None
    /\ inverter = None
    /\ sim = None
    /\ clocks = None
    /\ dataset = None
    /\ last_call = None

BatteryStepCall ==
    /\ hist.calls < MaxCalls
    /\ \E step_ticks \in StepTicks, battery_input \in BatteryInputs :
          \E r \in {BatteryLinear_step(battery, step_ticks, battery_input)} :
              /\ battery' = r.self
              /\ last_call' = Some([step_ticks |-> step_ticks,
                                    battery_input |-> battery_input,
                                    before |-> battery,
                                    result |-> r.result])
              /\ hist' = [hist EXCEPT
                            !.calls = @ + 1,
                            !.only_discharge =
                                /\ @
                                /\ battery_input # None
                                /\ battery_input[1].mode = "DISCHARGE"]
    /\ UNCHANGED <<power_source, load, grid, inverter, sim, clocks, dataset>>

BatteryNext == BatteryStepCall

SpecBattery == BatteryInit /\ [][BatteryNext]_vars

\* The energy a step requests, from its arguments: V * I * t * 3600 joules for
\* t = step_ticks / RES / 3600 hours.
RequestedJoules(c) ==
    QMul(QMul(QMul(c.before.nominal_voltage_v, c.battery_input[1].current_a),
              Q(c.step_ticks, c.before.clock.RES * 3600)),
         QInt(3600))

\* C4: the stored energy of a BatteryLinear stays in [0, capacity_j] and every
\* reported soc is in [0, 1].
C4_EnergyWithinCapacity ==
    /\ QLe(Zero, battery.energy_j)
    /\ QLe(battery.energy_j, battery.capacity_j)
    /\ last_call # None =>
          /\ QLe(Zero, last_call[1].result.soc)
          /\ QLe(last_call[1].result.soc, One)

\* C5: from SOC 1.0 with discharge efficiency 1, a DISCHARGE step removes
\* exactly V*I*t*3600 joules when that does not exceed the stored energy and
\* exactly the stored energy otherwise, and the soc is never below 0.
C5_DischargeExact ==
    (/\ last_call # None
     /\ hist.initial_soc = One
     /\ hist.only_discharge
     /\ battery.discharge_efficiency = One)
    => LET c == last_call[1]
           removed == QSub(c.before.energy_j, battery.energy_j)
       IN  /\ removed = IF QLe(RequestedJoules(c), c.before.energy_j)
                        THEN RequestedJoules(c)
                        ELSE c.before.energy_j
           /\ c.result.discharge_energy_j = removed
           /\ QLe(Zero, soc(battery))
           /\ c.result.soc = soc(battery)

\* C5 witness: a DISCHARGE-only run from a full battery whose last step asked
\* for more than was stored and emptied the battery.
C5_Witness ==
    /\ last_call # None
    /\ hist.initial_soc = One
    /\ hist.only_discharge
    /\ battery.discharge_efficiency = One
    /\ hist.calls >= 2
    /\ QLt(Zero, last_call[1].before.energy_j)
    /\ QLt(last_call[1].before.energy_j, RequestedJoules(last_call[1]))
    /\ battery.energy_j = Zero

\* C6: a CHARGE or IDLE step adds V*I*hours*3600*charge_efficiency joules when
\* that fits under the capacity, otherwise exactly the headroom (the battery is
\* then full), and never lowers the stored energy.
C6_ChargeClampedToHeadroom ==
    (/\ last_call # None
     /\ last_call[1].battery_input # None
     /\ last_call[1].battery_input[1].mode \in {"CHARGE", "IDLE"})
    => LET c == last_call[1]
           offered == QMul(RequestedJoules(c), c.before.charge_efficiency)
           headroom == QSub(c.before.capacity_j, c.before.energy_j)
           added == QSub(battery.energy_j, c.before.energy_j)
       IN  /\ added = IF QLe(offered, headroom) THEN offered ELSE headroom
           /\ QLt(headroom, offered) => battery.energy_j = battery.capacity_j
           /\ QLe(c.before.energy_j, battery.energy_j)

(***************************************************************************)
(* SpecInverter: an InverterPVFirst driven directly by its caller.         *)
(***************************************************************************)
InverterConfigs ==
    {[eff |-> <<One, One, One>>, min_soc |-> Zero, max_soc |-> One,
      own_load_w |-> QInt(30)],
     [eff |-> <<Q(1, 2), Q(1, 4), Q(3, 4)>>, min_soc |-> Q(1, 4), max_soc |-> Q(3, 4),
      own_load_w |-> Zero]}

PvPowers == {Zero, QInt(30), QInt(60), QInt(100)}

LoadPowers == {Zero, QInt(30), QInt(70)}

Socs == {Zero, Q(1, 4), Q(3, 4), One}

InverterInputs ==
    {InverterStepInput(BatteryStepResult(QInt(2), Zero, s, Zero, Zero),
                       [voltage_v |-> QInt(10), current_a |-> QDiv(pv, QInt(10)),
                        power_w |-> pv],
                       [current_a |-> One, voltage_v |-> ld, power_apparent_va |-> ld,
                        power_active_w |-> ld]) :
        s \in Socs, pv \in PvPowers, ld \in LoadPowers}

InverterInit ==
    /\ \E cfg \in InverterConfigs :
          inverter = InverterPVFirst(Clock(0, 1), cfg.eff[1], cfg.eff[2], cfg.eff[3],
                                     cfg.min_soc, cfg.max_soc, cfg.own_load_w)
    /\ battery = None
    /\ power_source = None
    /\ load = None
    /\ grid = None
    /\ sim = None
    /\ clocks = None
    /\ dataset = None
    /\ last_call = None
    /\ hist = [calls |-> 0]

InverterStepCall ==
    /\ hist.calls < MaxCalls
    /\ \E step_ticks \in {1, 2}, inverter_input \in InverterInputs :
          \E r \in {InverterPVFirst_step(inverter, step_ticks, inverter_input)} :
              /\ inverter' = r.self
              /\ last_call' = Some([step_ticks |-> step_ticks,
                                    inverter_input |-> inverter_input,
                                    result |-> r.result])
    /\ hist' = [hist EXCEPT !.calls = @ + 1]
    /\ UNCHANGED <<battery, power_source, load, grid, sim, clocks, dataset>>

InverterNext == InverterStepCall

SpecInverter == InverterInit /\ [][InverterNext]_vars

\* The quantities the decision is stated on.
InvPv == last_call[1].inverter_input.last_power_source_step.power_w

InvPvAc == QMul(InvPv, inverter.pv_to_ac_efficiency)

InvLoad ==
    QAdd(last_call[1].inverter_input.last_load_step.power_active_w, inverter.own_load_w)

InvSoc == last_call[1].inverter_input.last_battery_result.soc

InvBatV == last_call[1].inverter_input.last_battery_result.voltage_v

InvBattery == last_call[1].result.next_battery_input

InvGrid == last_call[1].result.next_grid_input

\* C7: InverterPVFirst.step is the 4-way decision on (pv_w, load_w, soc) of the
\* last input alone: surplus and full -> IDLE 0, grid 0; surplus and not full
\* -> CHARGE (pv_w - load_w/pv_to_ac)*pv_to_battery/V, grid 0; shortfall and
\* soc > min_soc -> DISCHARGE (load_w - pv_w*pv_to_ac)/battery_to_ac/V, grid 0;
\* otherwise IDLE 0 and grid active = apparent = load_w - pv_w*pv_to_ac.
C7_FourWayDecision ==
    last_call # None =>
        /\ (QLe(InvLoad, InvPvAc) /\ QLe(inverter.max_soc, InvSoc)) =>
              /\ InvBattery = BatteryStepInput("IDLE", Zero)
              /\ InvGrid = GridStepInput(Zero, Zero)
        /\ (QLe(InvLoad, InvPvAc) /\ QLt(InvSoc, inverter.max_soc)) =>
              /\ InvBattery =
                    BatteryStepInput("CHARGE",
                        QDiv(QMul(QSub(InvPv, QDiv(InvLoad, inverter.pv_to_ac_efficiency)),
                                  inverter.pv_to_battery_efficiency),
                             InvBatV))
              /\ InvGrid = GridStepInput(Zero, Zero)
        /\ (QLt(InvPvAc, InvLoad) /\ QLt(inverter.min_soc, InvSoc)) =>
              /\ InvBattery =
                    BatteryStepInput("DISCHARGE",
                        QDiv(QDiv(QSub(InvLoad, InvPvAc), inverter.battery_to_ac_efficiency),
                             InvBatV))
              /\ InvGrid = GridStepInput(Zero, Zero)
        /\ (QLt(InvPvAc, InvLoad) /\ QLe(InvSoc, inverter.min_soc)) =>
              /\ InvBattery = BatteryStepInput("IDLE", Zero)
              /\ InvGrid = GridStepInput(QSub(InvLoad, InvPvAc), QSub(InvLoad, InvPvAc))

\* C7 witness: after earlier steps, a shortfall met at soc = min_soc with
\* efficiencies below 1: the grid branch.
C7_Witness ==
    /\ last_call # None
    /\ hist.calls >= 2
    /\ inverter.pv_to_ac_efficiency # One
    /\ QLt(Zero, InvPv)
    /\ QLt(InvPvAc, InvLoad)
    /\ InvSoc = inverter.min_soc
    /\ InvGrid.power_demand_active_w = QSub(InvLoad, InvPvAc)

PriceSchedules ==
    {<<>>,
     <<<<QInt(2), QInt(5)>>>>,
     <<<<Zero, One>>, <<One, QInt(2)>>, <<One, QInt(3)>>, <<QInt(3), QInt(7)>>>>}

GridLimits == {<<Infinity, Infinity>>, <<QInt(40), QInt(20)>>}

GridInputs ==
    {None} \cup
    {Some(GridStepInput(QInt(d[1]), QInt(d[2]))) :
        d \in {<<0, 0>>, <<40, 20>>, <<45, 10>>, <<30, 30>>, <<50, 1000>>}}

GridInit ==
    /\ \E res \in Resolutions, sched \in PriceSchedules, lim \in GridLimits :
          grid = GridPriced(Clock(0, res), sched, lim[1], lim[2])
    /\ battery = None
    /\ power_source = None
    /\ load = None
    /\ inverter = None
    /\ sim = None
    /\ clocks = None
    /\ dataset = None
    /\ last_call = None
    /\ hist = [calls |-> 0]

GridStepCall ==
    /\ hist.calls < MaxCalls
    /\ \E step_ticks \in StepTicks, grid_input \in GridInputs :
          \E r \in {GridPriced_step(grid, step_ticks, grid_input)} :
              /\ grid' = r.self
              /\ last_call' = Some([step_ticks |-> step_ticks,
                                    grid_input |-> grid_input,
                                    before |-> grid,
                                    result |-> r.result])
    /\ hist' = [hist EXCEPT !.calls = @ + 1]
    /\ UNCHANGED <<battery, power_source, load, inverter, sim, clocks, dataset>>

GridNext == GridStepCall

SpecGrid == GridInit /\ [][GridNext]_vars

\* The entries of a schedule at or before a time, and the price the claim
\* names: that of the last such entry, 0 when there is none.
EntriesAtOrBefore(schedule, now) ==
    {k \in 1..Len(schedule) : QLe(schedule[k][1], now)}

LatestPrice(schedule, now) ==
    IF EntriesAtOrBefore(schedule, now) = {}
    THEN Zero
    ELSE schedule[CHOOSE k \in EntriesAtOrBefore(schedule, now) :
                      \A j \in EntriesAtOrBefore(schedule, now) : j <= k][2]

\* The time in seconds at which the last grid step started.
GridStart == Q(last_call[1].before.clock.ticks, last_call[1].before.clock.RES)

\* C9: with a schedule sorted ascending, a step is priced by the latest entry at
\* or before the grid clock's time at the start of the step (0 when there is
\* none), and cost = demanded active power * hours / 1000 * that price.
C9_PriceAtStepStart ==
    (last_call # None /\ last_call[1].grid_input # None)
    => LET c == last_call[1]
           hours == Q(c.step_ticks, c.before.clock.RES * 3600)
       IN  c.result.cost =
               QMul(QDiv(QMul(c.grid_input[1].power_demand_active_w, hours), QInt(1000)),
                    LatestPrice(c.before.price_schedule, GridStart))

\* C9 witness: a priced step that starts before a price change and ends after
\* it, so the price at its start differs from the price at its end.
C9_Witness ==
    /\ last_call # None
    /\ last_call[1].grid_input # None
    /\ QLt(Zero, last_call[1].result.cost)
    /\ LatestPrice(grid.price_schedule, GridStart)
          # LatestPrice(grid.price_schedule, to_seconds(grid.clock))
    /\ hist.calls >= 2

\* C10: GridPriced.step delivers what is demanded, also above the maxima, and
\* flags a violation exactly when the active or the apparent demand exceeds its
\* maximum; with no input it delivers 0 at cost 0 without a violation.
C10_DeliversDemandAndFlags ==
    last_call # None =>
        LET c == last_call[1]
        IN  IF c.grid_input # None
            THEN /\ c.result.power_delivered_apparent_va =
                        c.grid_input[1].power_demand_apparent_va
                 /\ c.result.power_delivered_active_w =
                        c.grid_input[1].power_demand_active_w
                 /\ c.result.violation =
                        (\/ QLt(c.before.max_power_active_w,
                                c.grid_input[1].power_demand_active_w)
                         \/ QLt(c.before.max_power_apparent_va,
                                c.grid_input[1].power_demand_apparent_va))
            ELSE /\ c.result.power_delivered_apparent_va = Zero
                 /\ c.result.power_delivered_active_w = Zero
                 /\ c.result.cost = Zero
                 /\ c.result.violation = FALSE

\* C10 witness: a demand above the apparent maximum only is delivered in full
\* and flagged.
C10_Witness ==
    /\ last_call # None
    /\ last_call[1].grid_input # None
    /\ QLt(grid.max_power_apparent_va, last_call[1].grid_input[1].power_demand_apparent_va)
    /\ QLe(last_call[1].grid_input[1].power_demand_active_w, grid.max_power_active_w)
    /\ last_call[1].result.power_delivered_apparent_va =
          last_call[1].grid_input[1].power_demand_apparent_va
    /\ last_call[1].result.violation

(***************************************************************************)
(* Spec: the Simulator over a BatteryLinear, a PowerSourceDataset, a        *)
(* LoadDataset, a GridPriced and an InverterPVFirst, all constructed at    *)
(* the same clock (second 1 of the recorded data) and stepped by the       *)
(* caller.  In one database the load's samples end first, in the other the *)
(* power source's.                                                         *)
(*   last_call: the last Simulator.step call: its step_ticks, the world     *)
(*     before it, its frame, its result (None when a component raised) and *)
(*     the inverter result of the call before it (None when there was no   *)
(*     such call or it did not reach the inverter).                        *)
(*   hist: the number of calls, of calls that returned, the sums of the    *)
(*     StepAggregates returned, the inverter results of the last call and  *)
(*     of the latest call that reached the inverter, the first clock and   *)
(*     the sum of the step_ticks of the calls that returned.               *)
(***************************************************************************)
Rows(pairs) == [k \in 1..Len(pairs) |-> <<QInt(pairs[k][1]), QInt(pairs[k][2])>>]

Databases ==
    {[pv1volt |-> Rows(<<<<0, 10>>, <<6, 20>>>>),
      pv1curr |-> Rows(<<<<0, 0>>, <<6, 4>>>>),
      pv1power |-> Rows(<<<<0, 0>>, <<1, 100>>, <<3, 40>>, <<6, 0>>>>),
      outcurra |-> Rows(<<<<0, 1>>, <<3, 2>>>>),
      outvolta |-> Rows(<<<<0, 20>>, <<3, 10>>>>),
      outva_a |-> Rows(<<<<0, 40>>, <<3, 80>>>>),
      outw_a |-> Rows(<<<<0, 30>>, <<2, 70>>, <<3, 10>>>>)],
     [pv1volt |-> Rows(<<<<1, 10>>, <<3, 20>>>>),
      pv1curr |-> Rows(<<<<1, 2>>, <<3, 4>>>>),
      pv1power |-> Rows(<<<<1, 20>>, <<3, 90>>>>),
      outcurra |-> Rows(<<<<0, 1>>, <<6, 2>>>>),
      outvolta |-> Rows(<<<<0, 20>>, <<6, 10>>>>),
      outva_a |-> Rows(<<<<0, 40>>, <<6, 80>>>>),
      outw_a |-> Rows(<<<<0, 70>>, <<2, 30>>, <<6, 10>>>>)]}

NoSums ==
    [generated_energy_wh |-> Zero, battery_charge_energy_wh |-> Zero,
     battery_discharge_energy_wh |-> Zero, load_energy_wh |-> Zero,
     generator_energy_unused_wh |-> Zero]

World == [battery |-> battery, power_source |-> power_source, load |-> load,
          grid |-> grid, inverter |-> inverter, sim |-> sim]

\* The quantities of one tick that the running extrema follow, under the names
\* of the CumulativeAggregates fields.
TickQuantities(result) ==
    [max_grid_power_demand_active_w |->
         result.inverter.next_grid_input.power_demand_active_w,
     max_grid_power_demand_apparent_va |->
         result.inverter.next_grid_input.power_demand_apparent_va,
     max_battery_voltage_v |-> result.battery.voltage_v,
     max_battery_current_a |-> result.battery.current_a,
     max_load_voltage_v |-> result.load.voltage_v,
     max_load_current_a |-> result.load.current_a,
     max_generator_voltage_v |-> result.power_source.voltage_v,
     max_generator_current_a |-> result.power_source.current_a,
     max_battery_soc |-> result.battery.soc,
     min_battery_soc |-> result.battery.soc]

\* The extrema over the ticks so far (None before the first) and one more tick.
ExtremaWith(extrema, tick) ==
    IF extrema = None THEN tick
    ELSE [k \in DOMAIN tick |->
             IF k = "min_battery_soc"
             THEN (IF QLt(tick[k], extrema[1][k]) THEN tick[k] ELSE extrema[1][k])
             ELSE (IF QLt(extrema[1][k], tick[k]) THEN tick[k] ELSE extrema[1][k])]

Init ==
    /\ \E res \in Resolutions, database \in Databases, cfg \in InverterConfigs,
          initial_soc \in {Q(1, 4), One} :
          LET clock == Clock(res, res)
          IN  /\ battery = BatteryLinear(clock, initial_soc, QInt(400), QInt(2), One, One)
              /\ power_source = PowerSourceDataset(clock, database)
              /\ load = LoadDataset(clock, database)
              /\ grid = GridPriced(clock,
                                   <<<<Zero, One>>, <<QInt(2), QInt(3)>>>>,
                                   QInt(40), QInt(20))
              /\ inverter = InverterPVFirst(clock, cfg.eff[1], cfg.eff[2], cfg.eff[3],
                                            cfg.min_soc, cfg.max_soc, cfg.own_load_w)
              /\ sim = Simulator(clock)
    /\ clocks = None
    /\ dataset = None
    /\ last_call = None
    /\ hist = [calls |-> 0, returned |-> 0, sums |-> NoSums, extrema |-> None,
               previous_inverter_step |-> None, latest_inverter_step |-> None,
               start |-> sim.clock, elapsed |-> 0]

SimulatorStepCall ==
    /\ hist.calls < MaxSimCalls
    /\ \E step_ticks \in StepTicks :
          \E r \in {Simulator_step(World, step_ticks)} :
              /\ battery' = r.frame.battery
              /\ power_source' = r.frame.power_source
              /\ load' = r.frame.load
              /\ grid' = r.frame.grid
              /\ inverter' = r.frame.inverter
              /\ sim' = r.sim
              /\ last_call' = Some([step_ticks |-> step_ticks,
                                    before |-> World,
                                    frame |-> r.frame,
                                    result |-> r.result,
                                    previous_inverter_step |-> hist.previous_inverter_step,
                                    latest_inverter_step |-> hist.latest_inverter_step])
              /\ hist' = [calls |-> hist.calls + 1,
                          returned |-> hist.returned + (IF r.result # None THEN 1 ELSE 0),
                          sums |->
                              IF r.result = None THEN hist.sums
                              ELSE [k \in DOMAIN NoSums |->
                                       QAdd(hist.sums[k], r.result[1].step_aggregates[k])],
                          extrema |->
                              IF r.result = None THEN hist.extrema
                              ELSE Some(ExtremaWith(hist.extrema, TickQuantities(r.result[1]))),
                          previous_inverter_step |-> r.frame.results.inverter,
                          latest_inverter_step |->
                              IF r.frame.results.inverter # None
                              THEN r.frame.results.inverter
                              ELSE hist.latest_inverter_step,
                          start |-> hist.start,
                          elapsed |-> hist.elapsed + (IF r.result # None THEN step_ticks ELSE 0)]
    /\ UNCHANGED <<clocks, dataset>>

Next == SimulatorStepCall

Spec == Init /\ [][Next]_vars

\* The setpoints an inverter result (None or <<result>>) hands to the next call.
SetpointsOf(inverter_step) ==
    IF inverter_step = None
    THEN [battery |-> None, grid |-> None]
    ELSE [battery |-> Some(inverter_step[1].next_battery_input),
          grid |-> Some(inverter_step[1].next_grid_input)]

\* C1: the battery_input and grid_input passed to battery.step and grid.step in
\* call N are the next_battery_input and next_grid_input the inverter returned
\* in call N-1, and both are None in the first call.  (More: they are always
\* those of the latest call in which the inverter was stepped.)
C1_OneTickDelay ==
    last_call # None =>
        LET c == last_call[1]
        IN  /\ hist.calls = 1 =>
                  /\ c.frame.inputs.battery = Some(None)
                  /\ c.frame.inputs.grid \in {None, Some(None)}
            /\ c.previous_inverter_step # None =>
                  /\ c.frame.inputs.battery =
                        Some(Some(c.previous_inverter_step[1].next_battery_input))
                  /\ c.frame.inputs.grid
                        \in {None, Some(Some(c.previous_inverter_step[1].next_grid_input))}
            /\ c.frame.inputs.battery = Some(SetpointsOf(c.latest_inverter_step).battery)
            /\ c.frame.inputs.grid
                  \in {None, Some(SetpointsOf(c.latest_inverter_step).grid)}
            /\ c.result # None => c.frame.inputs.grid # None

\* C1 witness: a third or later call in which the battery was given the
\* non-zero current commanded by the inverter in the call before and the grid
\* was given the demand commanded then, which differ from those commanded now.
C1_Witness ==
    /\ last_call # None
    /\ hist.calls >= 3
    /\ last_call[1].result # None
    /\ last_call[1].previous_inverter_step # None
    /\ QLt(Zero, last_call[1].frame.inputs.battery[1][1].current_a)
    /\ last_call[1].frame.inputs.battery[1][1]
          = last_call[1].previous_inverter_step[1].next_battery_input
    /\ last_call[1].frame.inputs.grid[1][1]
          = last_call[1].previous_inverter_step[1].next_grid_input
    /\ last_call[1].frame.inputs.battery[1] # sim.next_battery_input

\* C2: the five cumulative totals equal the sums of the corresponding
\* StepAggregates fields returned by the calls made so far, starting from 0.
C2_TotalsAreSums ==
    /\ sim.last_cumulative.total_generated_energy_wh = hist.sums.generated_energy_wh
    /\ sim.last_cumulative.total_battery_charge_energy_wh
          = hist.sums.battery_charge_energy_wh
    /\ sim.last_cumulative.total_battery_discharge_energy_wh
          = hist.sums.battery_discharge_energy_wh
    /\ sim.last_cumulative.total_load_energy_wh = hist.sums.load_energy_wh
    /\ sim.last_cumulative.total_generator_energy_unused_wh
          = hist.sums.generator_energy_unused_wh
    /\ (last_call # None /\ last_call[1].result # None) =>
          /\ last_call[1].result[1].cumulative_aggregates = sim.last_cumulative
          /\ last_call[1].result[1].cumulative_aggregates.total_load_energy_wh
                = hist.sums.load_energy_wh

\* C2 witness: three calls returned and every one of the five totals is
\* positive, the load total differing from the generated total.
C2_Witness ==
    /\ hist.returned >= 3
    /\ QLt(Zero, sim.last_cumulative.total_generated_energy_wh)
    /\ QLt(Zero, sim.last_cumulative.total_battery_charge_energy_wh)
    /\ QLt(Zero, sim.last_cumulative.total_battery_discharge_energy_wh)
    /\ QLt(Zero, sim.last_cumulative.total_load_energy_wh)
    /\ QLt(Zero, sim.last_cumulative.total_generator_energy_unused_wh)
    /\ sim.last_cumulative.total_load_energy_wh
          # sim.last_cumulative.total_generated_energy_wh

\* The component calls of a completed Simulator.step with step_ticks t.
FullRound(t) ==
    <<<<"battery", t>>, <<"power_source", t>>, <<"load", t>>, <<"grid", t>>,
      <<"inverter", t>>>>

\* C3: a Simulator.step call that returns has stepped each of the five
\* components exactly once, with its step_ticks, in the order battery, power
\* source, load, grid, inverter, and the inverter was given the battery, power
\* source and load results of this call.  (A call in which a component raises
\* has made the calls of that order up to the raising one and no other.)
C3_FixedOrderOncePerCall ==
    last_call # None =>
        LET c == last_call[1]
            t == c.step_ticks
        IN  IF c.result # None
            THEN /\ c.frame.log = FullRound(t)
                 /\ battery.clock = advance(c.before.battery.clock, t)
                 /\ power_source.clock = advance(c.before.power_source.clock, t)
                 /\ load.clock = advance(c.before.load.clock, t)
                 /\ grid.clock = advance(c.before.grid.clock, t)
                 /\ inverter.clock = advance(c.before.inverter.clock, t)
                 /\ c.frame.inputs.inverter =
                       Some(InverterStepInput(c.result[1].battery,
                                              c.result[1].power_source,
                                              c.result[1].load))
                 /\ c.result[1].battery =
                       BatteryLinear_step(c.before.battery, t,
                                          c.before.sim.next_battery_input).result
                 /\ c.result[1].load = LoadDataset_step(c.before.load, t).result
            ELSE /\ Len(c.frame.log) \in 2..3
                 /\ c.frame.log = SubSeq(FullRound(t), 1, Len(c.frame.log))
                 /\ grid = c.before.grid
                 /\ inverter = c.before.inverter
                 /\ battery.clock = advance(c.before.battery.clock, t)

\* C3 witness: a returned call with non-zero step_ticks after an earlier call,
\* whose inverter saw a battery result that differs from the one before.
C3_Witness ==
    /\ last_call # None
    /\ hist.calls >= 2
    /\ last_call[1].result # None
    /\ last_call[1].step_ticks > 0
    /\ Len(last_call[1].frame.log) = 5
    /\ last_call[1].frame.inputs.inverter[1].last_battery_result.soc
          # soc(last_call[1].before.battery)

(***************************************************************************)
(* SpecClock: the Clock operations on the clock clocks.self and a second   *)
(* clock clocks.other.  A Clock is a frozen value: an operation returns a  *)
(* new Clock, and clocks.self changes only when the caller rebinds it.     *)
(*   last_call: the last operation, its operands and what it returned.     *)
(***************************************************************************)
MaxTicks == 40

ClockResolutions == {1, 2, 1000}

Deltas == {-7, -1, 0, 3, 17}

AlignSteps == {1, 2, 3, 4, 10}

ClockInit ==
    /\ \E t \in {0, 5}, res \in ClockResolutions, o \in {0, 9}, ores \in ClockResolutions :
          clocks = [self |-> Clock(t, res), other |-> Clock(o, ores)]
    /\ battery = None
    /\ power_source = None
    /\ load = None
    /\ grid = None
    /\ inverter = None
    /\ sim = None
    /\ dataset = None
    /\ last_call = None
    /\ hist = [calls |-> 0]

\* c.advance(d), then .advance(-d) on what it returned.
ClockAdvance ==
    /\ \E d \in Deltas :
          /\ Abs(clocks.self.ticks + d) <= MaxTicks
          /\ clocks' = [clocks EXCEPT !.other = advance(clocks.self, d)]
          /\ last_call' = Some([op |-> "advance", self |-> clocks.self, d |-> d,
                                result |-> advance(clocks.self, d),
                                back |-> advance(advance(clocks.self, d), -d)])
    /\ UNCHANGED <<battery, power_source, load, grid, inverter, sim, dataset, hist>>

\* c.align(k), then .align(k) on what it returned.
ClockAlign ==
    /\ \E k \in AlignSteps :
          /\ clocks' = [clocks EXCEPT !.other = align(clocks.self, k)]
          /\ last_call' = Some([op |-> "align", self |-> clocks.self, k |-> k,
                                result |-> align(clocks.self, k),
                                again |-> align(align(clocks.self, k), k)])
    /\ UNCHANGED <<battery, power_source, load, grid, inverter, sim, dataset, hist>>

\* c > other and Clock.difference_hours(c, other).
ClockCompare ==
    /\ last_call' = Some([op |-> "compare", self |-> clocks.self, other |-> clocks.other,
                          gt |-> Clock_gt(clocks.self, clocks.other),
                          difference_hours |->
                              difference_hours(clocks.self, clocks.other)])
    /\ UNCHANGED <<battery, power_source, load, grid, inverter, sim, clocks, dataset, hist>>

\* The caller keeps the returned clock (self.clock = next_clock) or takes a
\* clock of another resolution as the second operand.
ClockRebind ==
    /\ \/ clocks' = [clocks EXCEPT !.self = clocks.other]
       \/ \E res \in ClockResolutions :
             clocks' = [clocks EXCEPT !.other = Clock(clocks.other.ticks, res)]
    /\ last_call' = None
    /\ UNCHANGED <<battery, power_source, load, grid, inverter, sim, dataset, hist>>

ClockNext == ClockAdvance \/ ClockAlign \/ ClockCompare \/ ClockRebind

SpecClock == ClockInit /\ [][ClockNext]_vars

\* C16: c.advance(d).advance(-d) equals c, ticks and RES, the clock returned by
\* advance has the RES of c, and c itself is as it was after the call.
C16_AdvanceInvertible ==
    (last_call # None /\ last_call[1].op = "advance") =>
        /\ last_call[1].back = last_call[1].self
        /\ last_call[1].result.RES = last_call[1].self.RES
        /\ last_call[1].result.ticks = last_call[1].self.ticks + last_call[1].d
        /\ clocks.self = last_call[1].self

C16_Witness ==
    /\ last_call # None
    /\ last_call[1].op = "advance"
    /\ last_call[1].d < 0
    /\ last_call[1].self.RES = 2
    /\ last_call[1].result # last_call[1].self

\* C17: c.align(k), k > 0, is a clock of the same RES whose ticks is a multiple
\* of k at distance at most k/2 from c.ticks, and aligning it again returns it.
C17_AlignNearestMultiple ==
    (last_call # None /\ last_call[1].op = "align") =>
        /\ last_call[1].result.RES = last_call[1].self.RES
        /\ last_call[1].result.ticks % last_call[1].k = 0
        /\ 2 * Abs(last_call[1].result.ticks - last_call[1].self.ticks) <= last_call[1].k
        /\ last_call[1].again = last_call[1].result

\* C18: difference_hours fails on clocks of different RES, and so does c > other.
C18_MixedResolutionRejected ==
    (/\ last_call # None
     /\ last_call[1].op = "compare"
     /\ last_call[1].self.RES # last_call[1].other.RES) =>
        /\ last_call[1].difference_hours = AssertionError
        /\ last_call[1].gt \notin BOOLEAN

(***************************************************************************)
(* SpecInterpolate: interpolate_value, in floating-point arithmetic, on a  *)
(* table of strictly increasing timestamps.                                *)
(*   dataset: the table; last_call: the last query and what it returned.   *)
(***************************************************************************)
SampleTimes == {0, 5, 10}

SampleValues == {0, 1, 10, 18}

QueryTimes == 0..11

\* The tables of 1 to 3 rows over SampleTimes, in ascending time order.
Tables ==
    {arr \in UNION {[1..n -> {<<QInt(t), QInt(v)>> : t \in SampleTimes, v \in SampleValues}] :
                        n \in 1..3} :
        \A k \in 1..(Len(arr) - 1) : QLt(arr[k][1], arr[k + 1][1])}

InterpolateInit ==
    /\ dataset \in Tables
    /\ battery = None
    /\ power_source = None
    /\ load = None
    /\ grid = None
    /\ inverter = None
    /\ sim = None
    /\ clocks = None
    /\ last_call = None
    /\ hist = [calls |-> 0]

InterpolateCall ==
    /\ \E ts \in QueryTimes :
          last_call' = Some([ts |-> QInt(ts),
                             result |-> interpolate_value_float(dataset, QInt(ts))])
    /\ UNCHANGED <<battery, power_source, load, grid, inverter, sim, clocks, dataset, hist>>

InterpolateNext == InterpolateCall

SpecInterpolate == InterpolateInit /\ [][InterpolateNext]_vars

\* The rows of the table at the query time, and the rows around it.
RowsAt(arr, ts) == {k \in 1..Len(arr) : arr[k][1] = ts}

Bracket(arr, ts) ==
    {k \in 1..(Len(arr) - 1) : QLt(arr[k][1], ts) /\ QLt(ts, arr[k + 1][1])}

\* C11: for a query between the first and the last timestamp, the stored value
\* at a sample timestamp and v0 + (ts-t0)/(t1-t0)*(v1-v0) between two samples;
\* a ValueError for a query after the last timestamp.
C11_InterpolateValue ==
    last_call # None =>
        LET ts == last_call[1].ts
            r == last_call[1].result
        IN  /\ QLt(dataset[Len(dataset)][1], ts) => (~r.ok /\ r.error = "ValueError")
            /\ \A k \in RowsAt(dataset, ts) : r.ok /\ r.value = dataset[k][2]
            /\ \A k \in Bracket(dataset, ts) :
                  /\ r.ok
                  /\ r.value = FAdd(dataset[k][2],
                                    FMul(FDiv(FSub(ts, dataset[k][1]),
                                              FSub(dataset[k + 1][1], dataset[k][1])),
                                         FSub(dataset[k + 1][2], dataset[k][2])))

(***************************************************************************)
(* SpecReplay: the two replay variants of the power source over the same   *)
(* measurements, each stepped by its caller.                               *)
(*   dataset: the measurements (rows), the pre-loading PowerSourceDataset  *)
(*            (memory) and the per-step querying one (offline);            *)
(*   last_call: the variant stepped last, the time it was queried at and   *)
(*              what the step returned.                                    *)
(***************************************************************************)
MaxReplayTicks == 8

Row(read_ts, pv1volt, pv1curr, pv1power) ==
    [inverter |-> 1, read_ts |-> QInt(read_ts), pv1volt |-> QInt(pv1volt),
     pv1curr |-> QInt(pv1curr), pv1power |-> QInt(pv1power)]

Measurements ==
    {<<>>,
     <<Row(0, 10, 1, 10), Row(2, 20, 2, 40)>>,
     <<Row(1, 10, 0, 0), Row(2, 30, 1, 30), Row(4, 20, 4, 80)>>}

\* The column of the measurements as load_inverter_array reads it: the rows
\* in which the column is not NULL.
Column(rows, name) ==
    LET present == SelectSeq(rows, LAMBDA r : r[name] # None)
    IN  [k \in 1..Len(present) |-> <<present[k].read_ts, present[k][name]>>]

ReplayInit ==
    /\ \E res \in Resolutions, t \in 0..2, rows \in Measurements :
          dataset = [rows |-> rows,
                     memory |-> PowerSourceDataset(
                                    Clock(t, res),
                                    [pv1volt |-> Column(rows, "pv1volt"),
                                     pv1curr |-> Column(rows, "pv1curr"),
                                     pv1power |-> Column(rows, "pv1power")]),
                     offline |-> OfflinePowerSourceDataset(Clock(t, res), rows)]
    /\ battery = None
    /\ power_source = None
    /\ load = None
    /\ grid = None
    /\ inverter = None
    /\ sim = None
    /\ clocks = None
    /\ last_call = None
    /\ hist = [calls |-> 0]

ReplayStepMemory ==
    /\ dataset.memory.clock.ticks < MaxReplayTicks
    /\ \E step_ticks \in StepTicks :
          \E r \in {PowerSourceDataset_step(dataset.memory, step_ticks)} :
              /\ dataset' = [dataset EXCEPT !.memory = r.self]
              /\ last_call' = Some([variant |-> "memory",
                                    ts |-> to_seconds(dataset.memory.clock),
                                    step |-> r])
    /\ UNCHANGED <<battery, power_source, load, grid, inverter, sim, clocks, hist>>

ReplayStepOffline ==
    /\ dataset.offline.clock.ticks < MaxReplayTicks
    /\ \E step_ticks \in StepTicks :
          \E r \in {OfflinePowerSourceDataset_step(dataset.offline, step_ticks)} :
              /\ dataset' = [dataset EXCEPT !.offline = r.self]
              /\ last_call' = Some([variant |-> "offline",
                                    ts |-> to_seconds(dataset.offline.clock),
                                    step |-> r])
    /\ UNCHANGED <<battery, power_source, load, grid, inverter, sim, clocks, hist>>

ReplayNext == ReplayStepMemory \/ ReplayStepOffline

SpecReplay == ReplayInit /\ [][ReplayNext]_vars

\* C12: in both variants a step whose query time is after the last sample
\* raises and returns no value.
C12_NoValuePastLastSample ==
    (/\ last_call # None
     /\ dataset.rows # <<>>
     /\ QLt(dataset.rows[Len(dataset.rows)].read_ts, last_call[1].ts)) =>
        ~last_call[1].step.ok

(***************************************************************************)
(* SpecContext: a ContextDataset built over a context table and stepped by *)
(* its caller.                                                             *)
(*   dataset: the component, or the exception its construction raised;     *)
(*   hist: the table and the arguments of the construction;                *)
(*   last_call: the last step, the clock before it and what it returned.   *)
(***************************************************************************)
MaxContextTicks == 12

ContextRow(recorded, start, end) ==
    [recorded |-> QInt(recorded), start |-> QInt(start), end |-> QInt(end)]

ContextTables ==
    {<<>>,
     <<ContextRow(0, 1, 2)>>,
     <<ContextRow(0, 3, 6), ContextRow(1, 2, 4)>>}

Horizons == {0, 1, 4}

ContextInit ==
    /\ \E res \in Resolutions, t \in 0..7, horizon_ticks \in Horizons,
          database \in ContextTables :
          /\ dataset = ContextDataset(Clock(t, res), horizon_ticks, database)
          /\ hist = [database |-> database, clock |-> Clock(t, res),
                     horizon |-> horizon_ticks]
    /\ battery = None
    /\ power_source = None
    /\ load = None
    /\ grid = None
    /\ inverter = None
    /\ sim = None
    /\ clocks = None
    /\ last_call = None

ContextStepCall ==
    /\ dataset.ok
    /\ dataset.clock.ticks < MaxContextTicks
    /\ \E step_ticks \in StepTicks :
          \E r \in {ContextDataset_step(dataset, step_ticks)} :
              /\ dataset' = r.self
              /\ last_call' = Some([step_ticks |-> step_ticks, now |-> dataset.clock,
                                    out |-> r.result])
    /\ UNCHANGED <<battery, power_source, load, grid, inverter, sim, clocks, hist>>

ContextNext == ContextStepCall

SpecContext == ContextInit /\ [][ContextNext]_vars

\* The rows of the table that are loaded (they end at or after the clock of the
\* construction) and live at now: recorded before now, ending after now and
\* starting before now + horizon.
LiveRows(now) ==
    SelectSeq(hist.database,
              LAMBDA r : /\ QLe(to_seconds(hist.clock), r.end)
                         /\ QLt(r.recorded, to_seconds(now))
                         /\ QLt(to_seconds(now), r.end)
                         /\ QLt(r.start, to_seconds(advance(now, hist.horizon))))

MaxBlockCalls == 4

BlockStepTicks == {1, 2, 10800, 21600}

BlockHours == {QInt(6), QInt(12), Q(1, 2400)}

TraceHours == {16, 24}

Seeds == {0, 1}

Entropy == {2, 7}

\* Measurements of the power source over a day, and a trace that ends after
\* six hours.
Traces ==
    {[pv1volt |-> Rows(<<<<0, 10>>, <<3, 20>>, <<21600, 30>>, <<43200, 20>>, <<64800, 10>>>>),
      pv1curr |-> Rows(<<<<0, 0>>, <<3, 1>>, <<21600, 4>>, <<43200, 2>>, <<64800, 0>>>>),
      pv1power |-> Rows(<<<<0, 0>>, <<3, 20>>, <<21600, 120>>, <<43200, 40>>, <<64800, 0>>>>)],
     [pv1volt |-> Rows(<<<<0, 10>>, <<21600, 30>>>>),
      pv1curr |-> Rows(<<<<0, 0>>, <<21600, 4>>>>),
      pv1power |-> Rows(<<<<0, 0>>, <<21600, 120>>>>)]}

BlockContextTables == {<<>>, <<ContextRow(0, 1, 1)>>}

BlocksInit ==
    /\ \E cls \in {"PowerSourceDataset", "ContextDataset"}, res \in Resolutions,
          hours \in TraceHours, block_hours \in BlockHours, seed \in Seeds,
          entropy_a \in Entropy, entropy_b \in Entropy :
          \E database \in IF cls = "PowerSourceDataset" THEN Traces ELSE BlockContextTables :
              \E a \in {BlockSampled(cls, Clock(0, res), Clock(hours * 3600 * res, res), 1,
                                     database, block_hours, Some(seed), entropy_a)},
                 b \in {BlockSampled(cls, Clock(0, res), Clock(hours * 3600 * res, res), 1,
                                     database, block_hours, Some(seed), entropy_b)} :
                  /\ a.ok
                  /\ b.ok
                  /\ dataset = [a |-> a.self, b |-> b.self]
                  /\ hist = [calls |-> 0, blocks_a |-> a.drawn, blocks_b |-> b.drawn,
                             window_start |-> a.self.clock,
                             end_clock |-> Clock(hours * 3600 * res, res)]
    /\ battery = None
    /\ power_source = None
    /\ load = None
    /\ grid = None
    /\ inverter = None
    /\ sim = None
    /\ clocks = None
    /\ last_call = None

BlockStepCall ==
    /\ hist.calls < MaxBlockCalls
    /\ \E step_ticks \in BlockStepTicks :
          \E a \in {BlockSampled_step(dataset.a, step_ticks)},
             b \in {BlockSampled_step(dataset.b, step_ticks)} :
              /\ dataset' = [a |-> a.self, b |-> b.self]
              /\ last_call' = Some([step_ticks |-> step_ticks, before |-> dataset.a,
                                    a |-> a, b |-> b])
              /\ hist' = [calls |-> hist.calls + 1,
                          blocks_a |-> hist.blocks_a \o a.drawn,
                          blocks_b |-> hist.blocks_b \o b.drawn,
                          window_start |->
                              IF a.drawn # <<>> THEN window_start(dataset.a, a.drawn[1])
                              ELSE hist.window_start,
                          end_clock |-> hist.end_clock]
    /\ UNCHANGED <<battery, power_source, load, grid, inverter, sim, clocks>>

BlocksNext == BlockStepCall

SpecBlocks == BlocksInit /\ [][BlocksNext]_vars

C14_OneResamplePerPassedWindow ==
    dataset.a.cls = "PowerSourceDataset" =>
        /\ last_call = None => Len(hist.blocks_a) = 1
        /\ last_call # None =>
              LET c == last_call[1]
                  passed == c.before.clock.ticks > c.before.end.ticks
              IN  /\ Len(c.a.drawn) = IF passed THEN 1 ELSE 0
                  /\ passed =>
                        /\ c.a.at = window_start(c.before, c.a.drawn[1])
                        /\ c.a.served =
                               Some(PowerSourceDataset(c.a.at, c.before.database))
                  /\ ~passed => c.a.served = Some(c.before.ds)
                  /\ c.a.at.ticks <= c.a.end.ticks
                  /\ Len(hist.blocks_a) <= hist.calls + 1

C14_Witness ==
    /\ last_call # None
    /\ dataset.a.cls = "PowerSourceDataset"
    /\ last_call[1].a.drawn # <<>>
    /\ last_call[1].a.step.ok
    /\ Len(hist.blocks_a) = 2
    /\ hist.calls >= 3

\* The last step was one of a BlockSampledDataset and reached its inner component.
ServedByDataset ==
    /\ last_call # None
    /\ dataset.a.cls = "PowerSourceDataset"
    /\ last_call[1].a.served # None

\* The time the inner component was queried at in the last step.
QueryTime == to_seconds(last_call[1].a.served[1].clock)

\* C15 as claimed: in a BlockSampledDataset the query time of every served step is at or after the
\* window's start and strictly before the window's start plus block_hours.
C15_QueryInsideWindowAsClaimed ==
    ServedByDataset =>
        /\ QLe(to_seconds(hist.window_start), QueryTime)
        /\ QLt(QueryTime,
               QAdd(to_seconds(hist.window_start),
                    QMul(QInt(60 * 60), dataset.a.block_hours)))

\* C15: in a BlockSampledDataset the query time of every served step is at or
\* after the window's start and at or before the window's end, the start
\* advanced by block_hours.
C15_QueryInsideWindow ==
    ServedByDataset =>
        /\ QLe(to_seconds(hist.window_start), QueryTime)
        /\ QLe(QueryTime,
               to_seconds(advance_seconds(hist.window_start,
                                          QMul(QInt(60 * 60), dataset.a.block_hours))))

C15_Witness ==
    /\ ServedByDataset
    /\ last_call[1].a.step.ok
    /\ last_call[1].a.drawn = <<>>
    /\ QueryTime = to_seconds(last_call[1].a.end)
    /\ QLt(to_seconds(hist.window_start), QueryTime)

\* C20: after one or more returned Simulator.step calls every running extremum
\* of CumulativeAggregates equals the extremum of its quantity over those
\* ticks: the minimum battery soc for min_battery_soc, the maximum for each
\* max_* field.  (Checked under Spec.)
C20_ExtremaOverTicks ==
    hist.returned >= 1 =>
        \A k \in DOMAIN hist.extrema[1] : sim.last_cumulative[k] = hist.extrema[1][k]


(***************************************************************************)
(* BatteryLinear.step without a command and with an IDLE command of        *)
(* current 0 (checked under SpecBattery).                                  *)
(***************************************************************************)
\* C21: a BatteryLinear step with no input leaves the stored energy unchanged,
\* returns current 0, discharged charge 0, discharged energy 0, the nominal
\* voltage and the unchanged soc, and advances the clock by step_ticks; a step
\* with an IDLE command of current 0 leaves the stored energy unchanged too.
C21_NoInputAndIdleKeepEnergy ==
    last_call # None =>
        LET c == last_call[1]
        IN  /\ c.battery_input = None =>
                  /\ battery.energy_j = c.before.energy_j
                  /\ c.result = BatteryStepResult(c.before.nominal_voltage_v, Zero,
                                                  soc(c.before), Zero, Zero)
                  /\ battery.clock = Clock(c.before.clock.ticks + c.step_ticks,
                                           c.before.clock.RES)
            /\ (/\ c.battery_input # None
                /\ c.battery_input[1] = BatteryStepInput("IDLE", Zero)) =>
                  /\ battery.energy_j = c.before.energy_j
                  /\ c.result.soc = soc(c.before)

\* After an earlier step moved the stored energy to a value
\* strictly between 0 and the capacity, an IDLE command of current 0 over a
\* non-zero duration.
C21_WitnessIdle ==
    /\ last_call # None
    /\ hist.calls >= 2
    /\ last_call[1].step_ticks > 0
    /\ last_call[1].battery_input = Some(BatteryStepInput("IDLE", Zero))
    /\ battery.energy_j # QMul(hist.initial_soc, battery.capacity_j)
    /\ QLt(Zero, battery.energy_j)
    /\ QLt(battery.energy_j, battery.capacity_j)

\* C21 witness: a step with no input, over a non-zero duration, that follows
\* a step which changed the stored energy.
C21_Witness ==
    /\ last_call # None
    /\ hist.calls >= 2
    /\ last_call[1].step_ticks > 0
    /\ last_call[1].battery_input = None
    /\ battery.energy_j # QMul(hist.initial_soc, battery.capacity_j)


(***************************************************************************)
(* The windows of the block resampler (checked under SpecBlocks).          *)
(***************************************************************************)
\* The window with index block of the wrapper self, as <<start, end>>.
WindowOf(self, block) ==
    <<window_start(self, block), window_end(self, window_start(self, block))>>

\* C22: the number of windows is floor((end_clock - start_clock) / block_hours);
\* every window [start + index * block_hours, start + (index + 1) * block_hours]
\* lies between start_clock and end_clock, and two different windows overlap at
\* most at an end point.
C22_WindowsPartitionTrace ==
    LET self == dataset.a
        hours == difference_hours(self.start_clock, hist.end_clock)
    IN  /\ self.blocks = floor(QDiv(hours, self.block_hours))
        /\ \A i \in 0..(self.blocks - 1) :
              /\ ~Clock_gt(self.start_clock, WindowOf(self, i)[1])
              /\ ~Clock_gt(WindowOf(self, i)[2], hist.end_clock)
        /\ \A i, j \in 0..(self.blocks - 1) :
              i < j => ~Clock_gt(WindowOf(self, i)[2], WindowOf(self, j)[1])

\* The window in use was drawn past the end of the trace.
C22_WindowPastEnd ==
    /\ hist.window_start = hist.end_clock
    /\ Clock_gt(dataset.a.end, hist.end_clock)


(***************************************************************************)
(* SpecAdapters: the two revisions of one replay adapter (dataset.py,      *)
(* which loads its columns when it is built, and offline.py, which looks   *)
(* up the row on every step) built over the same table at the same clock   *)
(* and stepped alike by their caller.                                      *)
(*   dataset: the kind of adapter, the table, and the two adapters;        *)
(*   hist: the clock of the construction and, per revision, the sum of the *)
(*         deltas of the successful steps and whether every failed step so *)
(*         far failed in its read;                                         *)
(*   last_call: the last step, the state and hist before it, and what each *)
(*              revision returned.                                         *)
(***************************************************************************)
MaxAdapterTicks == 7

AdapterKinds == {"Battery", "Load", "Grid", "PowerSource", "Inverter"}

Channels ==
    {"battvolt", "battcurr", "battsoc", "outcurra", "outvolta", "outva_a", "outw_a",
     "linepowerva_a", "linepowerw_a", "pv1volt", "pv1curr", "pv1power"}

\* A row of analog_measurements: the channels follow from v, but for battcurr;
\* note is a text column.
AdapterRow(read_ts, v, battcurr, note) ==
    [inverter |-> 1, read_ts |-> QInt(read_ts),
     battvolt |-> QInt(50 + v), battcurr |-> battcurr, battsoc |-> QInt(10 * v),
     outcurra |-> QInt(v), outvolta |-> QInt(230 + v), outva_a |-> QInt(240 * v),
     outw_a |-> QInt(230 * v),
     linepowerva_a |-> QInt(3 * v), linepowerw_a |-> QInt(2 * v),
     pv1volt |-> QInt(100 + v), pv1curr |-> QInt(2 * v), pv1power |-> QInt(200 * v),
     note |-> <<note>>]

\* An empty table, a table whose rows are complete, and a table with a row
\* whose battcurr is NULL.
AdapterTables ==
    {<<>>,
     <<AdapterRow(0, 2, QInt(-1), "a"), AdapterRow(2, 6, QInt(0), "b"),
       AdapterRow(5, 4, QInt(3), "c")>>,
     <<AdapterRow(1, 8, None, "a"), AdapterRow(4, 2, QInt(2), "b")>>}

\* dataset.<kind>Dataset(clock, inverter_id, database)
MemoryAdapter(kind, clock, rows) ==
    LET database == [c \in Channels |-> Column(rows, c)]
    IN  CASE kind = "Battery" -> BatteryDataset(clock, database)
          [] kind = "Load" -> LoadDataset(clock, database)
          [] kind = "Grid" -> GridDataset(clock, database)
          [] kind = "PowerSource" -> PowerSourceDataset(clock, database)
          [] kind = "Inverter" -> InverterDataset(clock, database)

\* The step of the dataset.py revision; the inputs are not read by any of
\* the adapters.
MemoryAdapter_step(kind, self, step_ticks) ==
    CASE kind = "Battery" -> BatteryDataset_step(self, step_ticks, None)
      [] kind = "Load" -> LoadDataset_step(self, step_ticks)
      [] kind = "Grid" -> GridDataset_step(self, step_ticks, None)
      [] kind = "PowerSource" -> PowerSourceDataset_step(self, step_ticks)
      [] kind = "Inverter" -> InverterDataset_step(self, step_ticks, None)

\* offline.<kind>Dataset(clock, inverter_id, database)
OfflineAdapter(kind, clock, rows) ==
    CASE kind = "Battery" -> OfflineBatteryDataset(clock, rows)
      [] kind = "Load" -> OfflineLoadDataset(clock, rows)
      [] kind = "Grid" -> OfflineGridDataset(clock, rows)
      [] kind = "PowerSource" -> OfflinePowerSourceDataset(clock, rows)
      [] kind = "Inverter" -> OfflineInverterDataset(clock, rows)

\* The step of the offline.py revision.
OfflineAdapter_step(kind, self, step_ticks) ==
    CASE kind = "Battery" -> OfflineBatteryDataset_step(self, step_ticks, None)
      [] kind = "Load" -> OfflineLoadDataset_step(self, step_ticks)
      [] kind = "Grid" -> OfflineGridDataset_step(self, step_ticks, None)
      [] kind = "PowerSource" -> OfflinePowerSourceDataset_step(self, step_ticks)
      [] kind = "Inverter" -> OfflineInverterDataset_step(self, step_ticks, None)

\* A step that raised in its read: the interpolation or the lookup failed.
ReadFailed(r) == ~r.ok /\ r.error \in {"ValueError", "IndexError"}

AdaptersInit ==
    /\ \E kind \in AdapterKinds, res \in Resolutions, t \in 0..2, rows \in AdapterTables :
          /\ dataset = [kind |-> kind, rows |-> rows,
                        memory |-> MemoryAdapter(kind, Clock(t, res), rows),
                        offline |-> OfflineAdapter(kind, Clock(t, res), rows)]
          /\ hist = [start |-> Clock(t, res),
                     elapsed |-> [memory |-> 0, offline |-> 0],
                     only_read_failures |-> [memory |-> TRUE, offline |-> TRUE]]
    /\ battery = None
    /\ power_source = None
    /\ load = None
    /\ grid = None
    /\ inverter = None
    /\ sim = None
    /\ clocks = None
    /\ last_call = None

AdapterStepCall ==
    /\ dataset.memory.clock.ticks < MaxAdapterTicks
    /\ dataset.offline.clock.ticks < MaxAdapterTicks
    /\ \E step_ticks \in StepTicks :
          \E m \in {MemoryAdapter_step(dataset.kind, dataset.memory, step_ticks)},
             o \in {OfflineAdapter_step(dataset.kind, dataset.offline, step_ticks)} :
              /\ dataset' = [dataset EXCEPT !.memory = m.self, !.offline = o.self]
              /\ last_call' = Some([step_ticks |-> step_ticks, before |-> dataset,
                                    hist |-> hist, memory |-> m, offline |-> o])
              /\ hist' = [hist EXCEPT
                            !.elapsed =
                                [memory |-> @.memory + IF m.ok THEN step_ticks ELSE 0,
                                 offline |-> @.offline + IF o.ok THEN step_ticks ELSE 0],
                            !.only_read_failures =
                                [memory |-> @.memory /\ (m.ok \/ ReadFailed(m)),
                                 offline |-> @.offline /\ (o.ok \/ ReadFailed(o))]]
    /\ UNCHANGED <<battery, power_source, load, grid, inverter, sim, clocks>>

AdaptersNext == AdapterStepCall

SpecAdapters == AdaptersInit /\ [][AdaptersNext]_vars


\* The values of the named channels of the table at time ts, read as the
\* dataset.py revision reads them.
MemoryValuesAt(rows, names, ts) ==
    [c \in names |-> interpolate_value(Column(rows, c), ts).value]

\* The result a successful step of the dataset.py revision returns when it
\* reads the table at time ts.
MemoryResultAt(kind, self, rows, ts, hours_passed) ==
    CASE kind = "Battery" ->
           BatteryDataset_result(
               self, MemoryValuesAt(rows, {"battvolt", "battcurr", "battsoc"}, ts),
               hours_passed)
      [] kind = "Load" ->
           LET m == MemoryValuesAt(rows, {"outcurra", "outvolta", "outva_a", "outw_a"}, ts)
           IN  LoadStepResult(m.outcurra, m.outvolta, m.outva_a, m.outw_a)
      [] kind = "Grid" ->
           LET m == MemoryValuesAt(rows, {"linepowerva_a", "linepowerw_a"}, ts)
           IN  GridStepResult(m.linepowerva_a, m.linepowerw_a)
      [] kind = "PowerSource" ->
           LET m == MemoryValuesAt(rows, {"pv1volt", "pv1curr", "pv1power"}, ts)
           IN  PowerSourceStepResult(m.pv1volt, m.pv1curr, m.pv1power)
      [] kind = "Inverter" ->
           InverterDataset_result(
               MemoryValuesAt(rows, {"battcurr", "pv1power", "linepowerva_a",
                                     "linepowerw_a"}, ts))

\* The result a successful step of the offline.py revision returns when it
\* looks the table up at time ts.
OfflineResultAt(kind, self, rows, ts, hours_passed) ==
    LET m == interpolate_row(fetch_around_unix_ts(rows, ts), ts).value
    IN  CASE kind = "Battery" -> OfflineBatteryDataset_result(self, m, hours_passed)
          [] kind = "Load" -> LoadStepResult(m.outcurra, m.outvolta, m.outva_a, m.outw_a)
          [] kind = "Grid" -> GridStepResult(m.linepowerva_a, m.linepowerw_a)
          [] kind = "PowerSource" -> PowerSourceStepResult(m.pv1volt, m.pv1curr, m.pv1power)
          [] kind = "Inverter" -> InverterDataset_result(m)

\* The clock t0 + d0 + ... + d(k-1) of the revision before the last call, from
\* the deltas of its successful steps.
ClockBefore(revision) ==
    Clock(hist.start.ticks + last_call[1].hist.elapsed[revision], hist.start.RES)

\* The last call of the revision read at the clock before the step and then
\* advanced the clock by step_ticks, or failed in its read and left the clock.
ReadThenAdvanced(revision) ==
    LET c == last_call[1]
        r == c[revision]
        t == ClockBefore(revision)
        after == Clock(t.ticks + c.step_ticks, t.RES)
        hours_passed == Q(c.step_ticks, t.RES * 3600)
    IN  /\ (r.ok /\ c.hist.only_read_failures[revision]) =>
              /\ c.before[revision].clock = t
              /\ dataset[revision].clock = after
              /\ r.result =
                    IF revision = "memory"
                    THEN MemoryResultAt(dataset.kind, c.before.memory, dataset.rows,
                                        to_seconds(t), hours_passed)
                    ELSE OfflineResultAt(dataset.kind, c.before.offline, dataset.rows,
                                         to_seconds(t), hours_passed)
        /\ r.ok => dataset[revision].clock.ticks =
                       c.before[revision].clock.ticks + c.step_ticks
        /\ ReadFailed(r) => dataset[revision].clock = c.before[revision].clock

\* C23: every replay adapter step, in both revisions, reads its channels at
\* the adapter's clock before the step and then advances the clock by exactly
\* step_ticks, so that the k-th of a sequence of successful steps reads at
\* t0 + d0 + ... + d(k-1); a step whose read fails leaves the clock.
C23_ReadAtPreStepClock ==
    last_call # None => ReadThenAdvanced("memory") /\ ReadThenAdvanced("offline")

\* C23 witness: both revisions of an adapter made their third successful step
\* or a later one, of a non-zero delta like the steps before it, and the read
\* fell strictly between two samples.
C23_Witness ==
    /\ last_call # None
    /\ last_call[1].memory.ok
    /\ last_call[1].offline.ok
    /\ last_call[1].step_ticks > 0
    /\ last_call[1].hist.elapsed.memory >= 3
    /\ last_call[1].hist.elapsed.offline = last_call[1].hist.elapsed.memory
    /\ \E k \in 1..(Len(dataset.rows) - 1) :
          /\ QLt(dataset.rows[k].read_ts, to_seconds(ClockBefore("memory")))
          /\ QLt(to_seconds(ClockBefore("memory")), dataset.rows[k + 1].read_ts)

\* A step whose read failed: the revision of dataset.py raised for a query
\* after the last sample.
C23_WitnessReadFailed ==
    /\ last_call # None
    /\ last_call[1].hist.elapsed.memory > 0
    /\ last_call[1].step_ticks > 0
    /\ ReadFailed(last_call[1].memory)

\* The step of offline.InverterDataset over a row without battcurr raises
\* after it has advanced the clock.
OfflineInverterRaisedAfterAdvance ==
    /\ last_call # None
    /\ ~last_call[1].offline.ok
    /\ last_call[1].offline.error = "TypeError"
    /\ dataset.offline.clock # last_call[1].before.offline.clock


(***************************************************************************)
(* SpecRows: interpolate_row applied to the rows fetch_around_unix_ts      *)
(* returns for a query time over a table.                                  *)
(*   dataset: the table; last_call: the last query, the rows fetched and   *)
(*   what interpolate_row returned.                                        *)
(***************************************************************************)
\* Tables of no row, of one row and of two rows; battcurr is NULL in some.
RowTables ==
    {<<>>, <<AdapterRow(2, 4, QInt(1), "a")>>}
    \cup {<<AdapterRow(t1, 2, c1, "a"), AdapterRow(t2, v2, c2, "b")>> :
              t1 \in {0, 1}, t2 \in {3, 4}, v2 \in {2, 6},
              c1 \in {None, QInt(-1)}, c2 \in {None, QInt(3)}}

RowQueryTimes == {Q(k, 2) : k \in 0..10}

RowsInit ==
    /\ dataset \in RowTables
    /\ battery = None
    /\ power_source = None
    /\ load = None
    /\ grid = None
    /\ inverter = None
    /\ sim = None
    /\ clocks = None
    /\ last_call = None
    /\ hist = None

RowQuery ==
    /\ \E ts \in RowQueryTimes :
          \E rows \in {fetch_around_unix_ts(dataset, ts)} :
              last_call' = Some([ts |-> ts, rows |-> rows,
                                 result |-> interpolate_row(rows, ts)])
    /\ UNCHANGED <<battery, power_source, load, grid, inverter, sim, clocks, dataset, hist>>

RowsNext == RowQuery

SpecRows == RowsInit /\ [][RowsNext]_vars

\* The rows of a kind among the fetched rows.
OfKind(rows, kind) == SelectSeq(rows, LAMBDA r : r.kind = kind)

\* The columns of a fetched row that hold measurements.
ValueColumns(row) == DOMAIN row \ {"kind", "read_ts", "inverter"}

\* C24: interpolate_row returns the exact row when there is one; with a prev
\* and a next row, every field that is a number in both is
\* v_prev + alpha * (v_next - v_prev) for alpha = (ts - t_prev)/(t_next - t_prev)
\* and every other field is the prev row's; with only a prev or only a next
\* row it returns that row; with no row it raises the no-data error.
C24_InterpolateRow ==
    last_call # None =>
        LET c == last_call[1]
            exact == OfKind(c.rows, "exact")
            prev == OfKind(c.rows, "prev")
            next == OfKind(c.rows, "next")
        IN  /\ c.rows = <<>> => c.result = Raise("ValueError")
            /\ exact # <<>> => c.result = Ok(exact[1])
            /\ (exact = <<>> /\ prev # <<>> /\ next = <<>>) => c.result = Ok(prev[1])
            /\ (exact = <<>> /\ prev = <<>> /\ next # <<>>) => c.result = Ok(next[1])
            /\ (exact = <<>> /\ prev # <<>> /\ next # <<>>) =>
                  LET p == prev[1]
                      n == next[1]
                      alpha == QDiv(QSub(c.ts, p.read_ts), QSub(n.read_ts, p.read_ts))
                  IN  /\ c.result.ok
                      /\ c.result.value.read_ts = c.ts
                      /\ c.result.value.read_ts =
                            QAdd(p.read_ts, QMul(alpha, QSub(n.read_ts, p.read_ts)))
                      /\ c.result.value.inverter = p.inverter
                      /\ \A col \in ValueColumns(p) :
                            c.result.value[col] =
                                IF Len(p[col]) = 2 /\ Len(n[col]) = 2
                                THEN QAdd(p[col], QMul(alpha, QSub(n[col], p[col])))
                                ELSE p[col]

\* C24 witness: a query strictly between two rows, not at the middle, whose
\* result has an interpolated battvolt different from both rows', the text of
\* the prev row and the NULL battcurr of the prev row.
C24_Witness ==
    /\ last_call # None
    /\ OfKind(last_call[1].rows, "prev") # <<>>
    /\ OfKind(last_call[1].rows, "next") # <<>>
    /\ last_call[1].result.ok
    /\ last_call[1].result.value.kind = "interp"
    /\ QSub(last_call[1].ts, OfKind(last_call[1].rows, "prev")[1].read_ts)
          # QSub(OfKind(last_call[1].rows, "next")[1].read_ts, last_call[1].ts)
    /\ last_call[1].result.value.battvolt # OfKind(last_call[1].rows, "prev")[1].battvolt
    /\ last_call[1].result.value.battvolt # OfKind(last_call[1].rows, "next")[1].battvolt
    /\ last_call[1].result.value.note = <<"a">>
    /\ last_call[1].result.value.battcurr = None
    /\ OfKind(last_call[1].rows, "next")[1].battcurr # None


(***************************************************************************)
(* The two revisions of the replay battery (checked under SpecAdapters).   *)
(***************************************************************************)
\* Both revisions of the replay battery returned from a step they made at
\* the same clock.
BothBatteriesReturned ==
    /\ last_call # None
    /\ dataset.kind = "Battery"
    /\ last_call[1].memory.ok
    /\ last_call[1].offline.ok
    /\ last_call[1].before.memory.clock = last_call[1].before.offline.clock

\* C25: over the same samples and the same steps dataset.BatteryDataset and
\* offline.BatteryDataset report the same state of charge, and it is in
\* [0,1] (the battsoc samples of the tables are percentages in [0,100]).
C25_BatteryRevisionsAgree ==
    BothBatteriesReturned =>
        /\ last_call[1].memory.result.soc = last_call[1].offline.result.soc
        /\ QLe(Zero, last_call[1].offline.result.soc)
        /\ QLe(last_call[1].offline.result.soc, One)
        /\ QLe(Zero, last_call[1].memory.result.soc)
        /\ QLe(last_call[1].memory.result.soc, One)

\* The revision of offline.py reports the stored percentage and the revision
\* of dataset.py a hundredth of it.
C25_OfflineReportsPercent ==
    /\ BothBatteriesReturned
    /\ QLt(One, last_call[1].offline.result.soc)
    /\ last_call[1].offline.result.soc =
          QMul(QInt(100), last_call[1].memory.result.soc)


(***************************************************************************)
(* The construction of a ContextDataset (checked under SpecContext).       *)
(***************************************************************************)
\* The rows of the table whose end is at or after the clock of the
\* construction.
LoadedRows ==
    SelectSeq(hist.database, LAMBDA r : QLe(to_seconds(hist.clock), r.end))

\* C26: the construction of a ContextDataset at clock t succeeds over any
\* context table, and the component holds one ContextRecord for each row of
\* the table whose end is at or after t.
C26_OneRecordPerLoadedRow ==
    /\ dataset.ok
    /\ Len(dataset.all_context) = Len(LoadedRows)

\* The construction raised TypeError over a table with a row to load.
C26_ConstructionRaised ==
    /\ ~dataset.ok
    /\ dataset.error = "TypeError"
    /\ LoadedRows # <<>>


(***************************************************************************)
(* The clocks of the Simulator and its components (checked under Spec).    *)
(***************************************************************************)
\* The clocks of the five components.
ComponentClocks == {battery.clock, power_source.clock, load.clock, grid.clock,
                    inverter.clock}

\* C27: the Simulator and its five components are built with the same clock;
\* as long as every call of Simulator.step returned, the Simulator's clock and
\* each component's clock are equal, and are the first clock advanced by the
\* sum of the step_ticks passed so far.
C27_LockstepClocks ==
    hist.returned = hist.calls =>
        /\ ComponentClocks = {sim.clock}
        /\ sim.clock = Clock(hist.start.ticks + hist.elapsed, hist.start.RES)

\* C27 witness: three or more calls, all returned, the last of a non-zero
\* delta, that moved the clocks by three ticks or more.
C27_Witness ==
    /\ hist.calls >= 3
    /\ hist.returned = hist.calls
    /\ hist.elapsed >= 3
    /\ last_call[1].step_ticks > 0
    /\ inverter.clock.ticks = hist.start.ticks + hist.elapsed

\* C28: a call of Simulator.step in which a component's step raised leaves the
\* Simulator (setpoints, last cumulative aggregates, clock) and every
\* component (clock and state) as they were before the call.
C28_FailedTickAtomic ==
    (last_call # None /\ last_call[1].result = None) => World = last_call[1].before

\* A call in which the load raised after the battery had discharged: the
\* battery's stored energy and clock moved, the other clocks did not.
C28_BatteryMovedInFailedTick ==
    /\ last_call # None
    /\ last_call[1].result = None
    /\ sim = last_call[1].before.sim
    /\ battery.energy_j # last_call[1].before.battery.energy_j
    /\ battery.clock # sim.clock
    /\ inverter.clock = sim.clock


(***************************************************************************)
(* The clock of the block resampler and the clock of the component it      *)
(* wraps (checked under SpecBlocks).                                       *)
(***************************************************************************)
\* C29: after the construction and after every step, whether the inner step
\* returned or raised, the wrapper's clock equals the clock of the wrapped
\* component.
C29_WrapperClockIsInnerClock ==
    /\ dataset.a.clock = dataset.a.ds.clock
    /\ dataset.b.clock = dataset.b.ds.clock

\* The inner step was made from equal clocks and raised: the wrapper's clock
\* has advanced by step_ticks and the inner clock has not.
C29_WrapperAheadAfterFailedStep ==
    /\ last_call # None
    /\ last_call[1].step_ticks > 0
    /\ last_call[1].a.drawn = <<>>
    /\ last_call[1].a.served # None
    /\ ~last_call[1].a.step.ok
    /\ last_call[1].before.clock = last_call[1].before.ds.clock
    /\ dataset.a.ds.clock = last_call[1].before.ds.clock
    /\ dataset.a.clock = advance(last_call[1].before.clock, last_call[1].step_ticks)


(***************************************************************************)
(* SpecInverterFloat: an InverterPVFirst driven directly by its caller,    *)
(* its arithmetic rounded to floats of MantissaBits bits.  The powers,     *)
(* efficiencies and socs are floats of that width.                         *)
(*   last_call: the last step call (its arguments and its result).         *)
(***************************************************************************)
FloatEfficiencies == {One, Q(13, 16)}

FloatPvPowers == {Zero, QInt(12), QInt(13), QInt(26), QInt(40)}

FloatLoadPowers == {Zero, QInt(9), QInt(11), QInt(22)}

FloatSocs == {Q(1, 4), Q(1, 2), One}

FloatInverterInputs ==
    {InverterStepInput(BatteryStepResult(QInt(2), Zero, s, Zero, Zero),
                       [voltage_v |-> QInt(10), current_a |-> QDiv(pv, QInt(10)),
                        power_w |-> pv],
                       [current_a |-> One, voltage_v |-> ld, power_apparent_va |-> ld,
                        power_active_w |-> ld]) :
        s \in FloatSocs, pv \in FloatPvPowers, ld \in FloatLoadPowers}

InverterFloatInit ==
    /\ \E eff \in FloatEfficiencies, own_load_w \in {Zero, One} :
          inverter = InverterPVFirst(Clock(0, 1), eff, eff, eff, Q(1, 4), One, own_load_w)
    /\ battery = None
    /\ power_source = None
    /\ load = None
    /\ grid = None
    /\ sim = None
    /\ clocks = None
    /\ dataset = None
    /\ last_call = None
    /\ hist = [calls |-> 0]

InverterFloatStepCall ==
    /\ hist.calls < MaxCalls
    /\ \E step_ticks \in {1, 2}, inverter_input \in FloatInverterInputs :
          \E r \in {InverterPVFirst_step_float(inverter, step_ticks, inverter_input)} :
              /\ inverter' = r.self
              /\ last_call' = Some([step_ticks |-> step_ticks,
                                    inverter_input |-> inverter_input,
                                    result |-> r.result])
    /\ hist' = [hist EXCEPT !.calls = @ + 1]
    /\ UNCHANGED <<battery, power_source, load, grid, sim, clocks, dataset>>

InverterFloatNext == InverterFloatStepCall

SpecInverterFloat == InverterFloatInit /\ [][InverterFloatNext]_vars

\* The sign of the tick's generator_energy_unused_wh of Simulator.step:
\* (power_w - generator_power_drawn_w) * hours_passed for a tick of
\* step_ticks > 0 has the sign of the difference.
UnusedPowerW == QSub(InvPv, last_call[1].result.generator_power_drawn_w)

\* C30: every InverterPVFirst result, for non-negative powers and
\* efficiencies in (0,1]: the grid demand is non-zero only with the battery
\* command IDLE with current 0; the commanded current is not negative;
\* generator_power_drawn_w is at most the PV power, and is below it only when
\* the PV covers the load and soc >= max_soc (battery IDLE, grid demand 0);
\* so the tick's generator_energy_unused_wh is not negative.
C30_InverterSafety ==
    last_call # None =>
        /\ InvGrid # GridStepInput(Zero, Zero) => InvBattery = BatteryStepInput("IDLE", Zero)
        /\ QLe(Zero, InvBattery.current_a)
        /\ QLe(last_call[1].result.generator_power_drawn_w, InvPv)
        /\ QLt(last_call[1].result.generator_power_drawn_w, InvPv) =>
              /\ InvBattery = BatteryStepInput("IDLE", Zero)
              /\ InvGrid = GridStepInput(Zero, Zero)
              /\ QLe(inverter.max_soc, InvSoc)
        /\ QLe(Zero, UnusedPowerW)

\* The PV covered the load after rounding and the battery was full: the
\* power drawn from the generator is above the PV power.
C30_DrawnAbovePv ==
    /\ last_call # None
    /\ InvBattery = BatteryStepInput("IDLE", Zero)
    /\ InvGrid = GridStepInput(Zero, Zero)
    /\ QLt(InvPv, last_call[1].result.generator_power_drawn_w)

\* The PV covered the load after rounding and the battery was not full: the
\* battery is told to CHARGE with a negative current.
C30_NegativeChargeCurrent ==
    /\ last_call # None
    /\ InvBattery.mode = "CHARGE"
    /\ QLt(InvBattery.current_a, Zero)

====
